---- MODULE Spec2Model ----
(***************************************************************************)
(* Model of NextTabsTitleControl (nextTabsTitleControl.ts): the tab strip  *)
(* of one editor group.  The host group (ordered editors, active editor)   *)
(* and the documents are the environment; the control's handlers           *)
(* openEditor, closeEditor, moveEditor, updateEditorLabel, updateOptions   *)
(* and the label computation are translated from the source.               *)
(***************************************************************************)
EXTENDS Integers, Sequences, FiniteSets, TLC

\* Largest number of editors the host group holds at once.
MaxEditors == 3

\* layoutCalls counts up to this number
MaxLayoutCalls == 2

\* Largest number of drag-enter events a tab gets before a drag-leave.
MaxDragEnters == 3

\* Largest number of clicks whose deferred callbacks have not run yet.
MaxPendingOpens == 2

\* history counts the close-button clicks in a row up to this number
MaxCloseClicks == 2

(***************************************************************************)
(* Strings.  A description is a path: the sequence of its segments; the    *)
(* empty string is the empty sequence.  A description that is not a string *)
(* (null / undefined) is the out-of-band value Undefined.                  *)
(***************************************************************************)
Undefined == <<"undefined">>
EmptyString == << >>
Ellipsis == "..."

IsString(description) == description # Undefined

(***************************************************************************)
(* The documents (IEditorInput).  Each answers getName, getDescription at  *)
(* the three verbosities and getTitle.  d1..d4 share the name "f":         *)
(*   d1  medium a/b, long r/a/b                                            *)
(*   d2  d1's medium description, another long description                 *)
(*   d3  another medium description, d1's long description                 *)
(*   d4  no description at any verbosity (EditorInput's default)           *)
(* d5 has a name of its own until it is renamed; it then answers like d1.  *)
(***************************************************************************)
Docs == {"d1", "d2", "d3", "d4", "d5"}
NoEditor == "none"

BaseLabel(d) ==
    CASE d = "d1" -> [name |-> "f", short |-> <<"b">>, medium |-> <<"a", "b">>,
                      long |-> <<"r", "a", "b">>, title |-> "r/a/b/f"]
      [] d = "d2" -> [name |-> "f", short |-> <<"b">>, medium |-> <<"a", "b">>,
                      long |-> <<"s", "a", "b">>, title |-> "s/a/b/f"]
      [] d = "d3" -> [name |-> "f", short |-> <<"d">>, medium |-> <<"c", "d">>,
                      long |-> <<"r", "a", "b">>, title |-> "resource:r/a/b/f"]
      [] d = "d4" -> [name |-> "f", short |-> Undefined, medium |-> Undefined,
                      long |-> Undefined, title |-> "f"]
      [] OTHER    -> [name |-> "g", short |-> <<"e">>, medium |-> <<"a", "e">>,
                      long |-> <<"r", "a", "e">>, title |-> "r/a/e/g"]

\* The label a document answers with after it was renamed (only d5 changes).
AltLabel(d) ==
    IF d = "d5"
    THEN [name |-> "f", short |-> <<"b">>, medium |-> <<"a", "b">>,
          long |-> <<"r", "a", "b">>, title |-> "r/a/b/f (2)"]
    ELSE BaseLabel(d)

LabelFormats == {"default", "short", "medium", "long", "unknown"}

VARIABLES
    editors,          \* host: group.editors, the ordered documents
    activeEditor,     \* host: group.activeEditor, NoEditor when the group is empty
    renamed,          \* host: the documents that currently answer with AltLabel
    labelFormat,      \* accessor.partOptions.labelFormat
    tabsContainer,    \* tabsContainer.children: one element per tab
    tabLabelWidgets,  \* this.tabLabelWidgets
    tabDisposeables,  \* this.tabDisposeables
    tabLabels,        \* this.tabLabels
    history,          \* history: the last step, with the state before an open
    dimension,        \* this.dimension, NoDimension while undefined
    layoutScheduled,  \* this.layoutScheduled is set
    scheduledRunners, \* the layout runners queued for the next animation frame
    blockRevealActiveTab, \* this.blockRevealActiveTab
    scrollbar,        \* this.scrollbar: its scroll dimensions and position
    viewport,         \* browser: tabsContainer.offsetWidth
    layoutCalls,      \* history: layout() calls that passed its guard since the last frame
    lastFrame,        \* history: the doLayout runs of the last frame and their outcome
    hookedTabs,       \* the tab indices whose listeners are hooked and not disposed
    editorActionsToolbar, \* the editors whose actions the toolbar shows
    tabDrag,          \* per tab: the drag counter, the class dragged-over, the drop feedback
    containerDrag,    \* tabsContainer: the drop feedback, the class scroll
    transfer,         \* LocalSelectionTransfer: the dragged editor and its group
    session,          \* browser: the drag session in progress
    pointer,          \* browser: what the drag is over
    lastDrag,         \* history: the last terminal drag event and what it asked of the host
    partOptions,      \* accessor.partOptions: the options other than labelFormat
    dirtyEditors,     \* host: the documents whose isDirty() is true
    pinnedEditors,    \* host: the documents whose group.isPinned() is true
    activeGroup,      \* host: accessor.activeGroup is this group
    tabStyles,        \* per tab element: what the last redraw of it has drawn
    pendingOpens,     \* browser: the setTimeout callbacks of clicks that have not run yet
    disposed          \* dispose() was called

tabVars == <<tabsContainer, tabLabelWidgets, tabDisposeables, tabLabels,
             hookedTabs, editorActionsToolbar, tabStyles, tabDrag>>

layoutVars == <<dimension, layoutScheduled, scheduledRunners, layoutCalls>>

scrollVars == <<scrollbar, viewport, lastFrame>>

hostVars == <<editors, activeEditor, renamed, labelFormat, partOptions,
              dirtyEditors, pinnedEditors, activeGroup>>

controlVars == <<pendingOpens, disposed>>

dragVars == <<containerDrag, transfer, session, pointer, lastDrag>>

vars == <<editors, activeEditor, renamed, labelFormat, tabsContainer,
          tabLabelWidgets, tabDisposeables, tabLabels, history,
          dimension, layoutScheduled, scheduledRunners, blockRevealActiveTab,
          scrollbar, viewport, layoutCalls, lastFrame, hookedTabs,
          editorActionsToolbar, tabDrag, containerDrag, transfer, session,
          pointer, lastDrag, partOptions, dirtyEditors, pinnedEditors,
          activeGroup, tabStyles, pendingOpens, disposed>>


(***************************************************************************)
(* Document accessors (IEditorInput); rn is the set of renamed documents.   *)
(***************************************************************************)
DocLabel(rn, d) == IF d \in rn THEN AltLabel(d) ELSE BaseLabel(d)

getName(rn, d) == DocLabel(rn, d).name

getDescription(rn, d, verbosity) ==
    CASE verbosity = "SHORT" -> DocLabel(rn, d).short
      [] verbosity = "MEDIUM" -> DocLabel(rn, d).medium
      [] OTHER -> DocLabel(rn, d).long

getTitle(rn, d) == DocLabel(rn, d).title

(***************************************************************************)
(* shorten(paths) of vs/base/common/labels: for each path the shortest     *)
(* suffix that is a suffix of no other path, marked with a leading         *)
(* ellipsis when it is a proper suffix; the whole path when no suffix      *)
(* distinguishes it.  A path that is not a string is passed through.       *)
(***************************************************************************)
Suffix(p, k) == SubSeq(p, Len(p) - k + 1, Len(p))

IsSuffix(s, q) == Len(s) <= Len(q) /\ Suffix(q, Len(s)) = s

Min(S) == CHOOSE x \in S : \A y \in S : x <= y

ShortenOne(p, others) ==
    IF ~IsString(p) THEN p
    ELSE LET unique == {k \in 1..Len(p) :
                          \A q \in others : ~IsString(q) \/ ~IsSuffix(Suffix(p, k), q)}
         IN  IF unique = {} \/ Min(unique) = Len(p)
             THEN p
             ELSE <<Ellipsis>> \o Suffix(p, Min(unique))

shorten(paths) ==
    [i \in 1..Len(paths) |->
        ShortenOne(paths[i], {paths[j] : j \in (1..Len(paths)) \ {i}})]

(***************************************************************************)
(* getLabelConfigFlags                                                     *)
(***************************************************************************)
GetLabelConfigFlags_NeverShortens(value) ==
    CASE value = "short" -> [verbosity |-> "SHORT", shortenDuplicates |-> FALSE]
      [] value = "medium" -> [verbosity |-> "MEDIUM", shortenDuplicates |-> FALSE]
      [] value = "long" -> [verbosity |-> "LONG", shortenDuplicates |-> FALSE]
      [] OTHER -> [verbosity |-> "MEDIUM", shortenDuplicates |-> FALSE]

GetLabelConfigFlags_LongShortens(value) ==
    CASE value = "short" -> [verbosity |-> "SHORT", shortenDuplicates |-> FALSE]
      [] value = "medium" -> [verbosity |-> "MEDIUM", shortenDuplicates |-> FALSE]
      [] value = "long" -> [verbosity |-> "LONG", shortenDuplicates |-> TRUE]
      [] OTHER -> [verbosity |-> "MEDIUM", shortenDuplicates |-> TRUE]

getLabelConfigFlags(value) ==
    CASE value = "short" -> [verbosity |-> "SHORT", shortenDuplicates |-> FALSE]
      [] value = "medium" -> [verbosity |-> "MEDIUM", shortenDuplicates |-> FALSE]
      [] value = "long" -> [verbosity |-> "LONG", shortenDuplicates |-> FALSE]
      [] OTHER -> [verbosity |-> "MEDIUM", shortenDuplicates |-> TRUE]

(***************************************************************************)
(* shortenTabLabels                                                        *)
(***************************************************************************)
\* The keys of a Map filled with values[1..n] in that order: the distinct
\* values in the order of their first insertion.
RECURSIVE MapKeys(_, _)
MapKeys(values, n) ==
    IF n = 0 THEN << >>
    ELSE LET prev == MapKeys(values, n - 1)
         IN  IF \E k \in 1..Len(prev) : prev[k] = values[n]
             THEN prev
             ELSE Append(prev, values[n])

\* mapTitleToDuplicates.get(name): the indices, in order, of the labels with
\* that name whose description is a string.
RECURSIVE DuplicateTitles_CountsAll(_, _, _)
DuplicateTitles_CountsAll(labels, name, n) ==
    IF n = 0 THEN << >>
    ELSE LET prev == DuplicateTitles_CountsAll(labels, name, n - 1)
         IN  IF labels[n].name = name THEN Append(prev, n) ELSE prev

RECURSIVE DuplicateTitles(_, _, _)
DuplicateTitles(labels, name, n) ==
    IF n = 0 THEN << >>
    ELSE LET prev == DuplicateTitles(labels, name, n - 1)
         IN  IF IsString(labels[n].description) /\ labels[n].name = name
             THEN Append(prev, n)
             ELSE prev

\* Whether the long descriptions replace the descriptions of a name group:
\* some editors with the same description differ in their long descriptions.
UseLongDescriptions_Never(rn, labels, dup) == FALSE

UseLongDescriptions_Always(rn, labels, dup) == TRUE

UseLongDescriptions(rn, labels, dup) ==
    \E k, m \in 1..Len(dup) :
        /\ k # m
        /\ labels[dup[k]].description = labels[dup[m]].description
        /\ getDescription(rn, labels[dup[k]].editor, "LONG")
             # getDescription(rn, labels[dup[m]].editor, "LONG")

\* The description of the only member of a name group.
SingleTitle_KeepsDescription(rn, labels, dup) == labels[dup[1]].description

SingleTitle(rn, labels, dup) == EmptyString

\* The description of the members of a name group whose descriptions are all
\* the one given.
IdenticalDescriptions_KeepsDescription(description) == description

IdenticalDescriptions(description) == EmptyString

\* The body of mapTitleToDuplicates.forEach for one name group: the final
\* description of each member, by its position in the group.

ShortenDuplicateTitles(rn, labels, dup) ==
    LET n == Len(dup)
        useLongDescriptions == UseLongDescriptions(rn, labels, dup)
        descOf(k) == IF useLongDescriptions
                     THEN getDescription(rn, labels[dup[k]].editor, "LONG")
                     ELSE labels[dup[k]].description
        descriptions == MapKeys([k \in 1..n |-> descOf(k)], n)
        shortenedDescriptions == shorten(descriptions)
        pos(k) == CHOOSE j \in 1..Len(descriptions) : descriptions[j] = descOf(k)
    IN  [k \in 1..n |->
            IF n = 1 THEN SingleTitle(rn, labels, dup)
            ELSE IF Len(descriptions) = 1 THEN IdenticalDescriptions(descriptions[1])
            ELSE shortenedDescriptions[pos(k)]]

shortenTabLabels(rn, labels) ==
    [i \in 1..Len(labels) |->
        IF ~IsString(labels[i].description)
        THEN [labels[i] EXCEPT !.description = EmptyString]
        ELSE LET dup == DuplicateTitles(labels, labels[i].name, Len(labels))
                 k == CHOOSE k \in 1..Len(dup) : dup[k] = i
             IN  [labels[i] EXCEPT
                    !.description = ShortenDuplicateTitles(rn, labels, dup)[k]]]

(***************************************************************************)
(* computeTabLabels: the value assigned to this.tabLabels                  *)
(***************************************************************************)
BuildLabels(rn, eds, verbosity) ==
    [i \in 1..Len(eds) |->
        [editor |-> eds[i],
         name |-> getName(rn, eds[i]),
         description |-> getDescription(rn, eds[i], verbosity),
         title |-> getTitle(rn, eds[i])]]

computeTabLabels(rn, eds, format) ==
    LET flags == getLabelConfigFlags(format)
        labels == BuildLabels(rn, eds, flags.verbosity)
    IN  IF flags.shortenDuplicates THEN shortenTabLabels(rn, labels) ELSE labels


(***************************************************************************)
(* Arrays (0-based indices, as in the source).                             *)
(***************************************************************************)
Range(s) == {s[i] : i \in 1..Len(s)}

\* getIndexOfEditor: the 0-based index of d in eds, -1 when absent
IndexOf(eds, d) ==
    IF d \in Range(eds) THEN (CHOOSE i \in 1..Len(eds) : eds[i] = d) - 1 ELSE -1

\* array.splice(index, 1)
SpliceOut(arr, index) ==
    SubSeq(arr, 1, index) \o SubSeq(arr, index + 2, Len(arr))

\* array.splice(index, 0, x)
SpliceIn(arr, index, x) ==
    LET at == IF index > Len(arr) THEN Len(arr) ELSE index
    IN  SubSeq(arr, 1, at) \o <<x>> \o SubSeq(arr, at + 1, Len(arr))

(***************************************************************************)
(* The host group.  It keeps an active editor exactly while it has         *)
(* editors, and delivers each mutation's notification right after it.      *)
(***************************************************************************)
HostOpenEditor(d, index, activate) ==
    /\ editors' = IF d \in Range(editors) THEN editors ELSE SpliceIn(editors, index, d)
    /\ activeEditor' = IF activate \/ activeEditor = NoEditor THEN d ELSE activeEditor
    /\ UNCHANGED <<renamed, labelFormat, partOptions, dirtyEditors, pinnedEditors, activeGroup>>

HostCloseEditor(d, nextActive) ==
    /\ editors' = SpliceOut(editors, IndexOf(editors, d))
    /\ activeEditor' = IF Len(editors) = 1 THEN NoEditor
                       ELSE IF activeEditor = d THEN nextActive
                       ELSE activeEditor
    /\ pinnedEditors' = pinnedEditors \ {d}
    /\ UNCHANGED <<renamed, labelFormat, partOptions, dirtyEditors, activeGroup>>

HostMoveEditor(d, targetIndex) ==
    /\ editors' = SpliceIn(SpliceOut(editors, IndexOf(editors, d)), targetIndex, d)
    /\ UNCHANGED <<activeEditor, renamed, labelFormat, partOptions, dirtyEditors,
                   pinnedEditors, activeGroup>>

HostRenameEditor(d) ==
    /\ renamed' = IF AltLabel(d) = BaseLabel(d) THEN renamed
                  ELSE IF d \in renamed THEN renamed \ {d}
                  ELSE renamed \cup {d}
    /\ UNCHANGED <<editors, activeEditor, labelFormat, partOptions, dirtyEditors,
                   pinnedEditors, activeGroup>>

HostSetOptions(newOptions) ==
    /\ labelFormat' = newOptions.labelFormat
    /\ partOptions' = [tabCloseButton |-> newOptions.tabCloseButton,
                       tabSizing |-> newOptions.tabSizing,
                       showIcons |-> newOptions.showIcons,
                       iconTheme |-> newOptions.iconTheme,
                       openPositioning |-> newOptions.openPositioning]
    /\ UNCHANGED <<editors, activeEditor, renamed, dirtyEditors, pinnedEditors, activeGroup>>

(***************************************************************************)
(* createTab(index): the tab element, its label widget and its disposable, *)
(* each bound to the index the tab was created with.                       *)
(***************************************************************************)
createTab(index) == [index |-> index]

\* openEditor's loop: one createTab per missing tab element; arr is the tab
\* elements, the label widgets or the disposables.
CreateTabs(arr, children, count) ==
    arr \o [k \in 1..(count - Len(children)) |-> createTab(Len(children) + k - 1)]

\* closeEditor's loop: one pop per surplus tab element.
RemoveClosedTabs_KeepAll(arr, children, count) == arr

RemoveClosedTabs_FromHead(arr, children, count) ==
    LET surplus == IF Len(children) > count THEN Len(children) - count ELSE 0
    IN  SubSeq(arr, surplus + 1, Len(arr))

RemoveClosedTabs(arr, children, count) ==
    LET surplus == IF Len(children) > count THEN Len(children) - count ELSE 0
    IN  SubSeq(arr, 1, Len(arr) - surplus)

\* moveEditor's two splices on this.tabLabels
MoveLabel_Swap(labels, fromIndex, targetIndex) ==
    [i \in 1..Len(labels) |->
        IF i = fromIndex + 1 THEN labels[targetIndex + 1]
        ELSE IF i = targetIndex + 1 THEN labels[fromIndex + 1]
        ELSE labels[i]]

MoveLabel_ShiftsTarget(labels, fromIndex, targetIndex) ==
    SpliceIn(SpliceOut(labels, fromIndex),
             IF fromIndex < targetIndex THEN targetIndex - 1 ELSE targetIndex,
             labels[fromIndex + 1])

MoveLabel(labels, fromIndex, targetIndex) ==
    SpliceIn(SpliceOut(labels, fromIndex), targetIndex, labels[fromIndex + 1])

(***************************************************************************)
(* The tab strip's geometry, as the browser lays it out: every tab is as   *)
(* wide as its document's label needs, tabs follow each other from the     *)
(* left, and the content is never narrower than the viewport.              *)
(***************************************************************************)
Viewports == {400, 600}

TabWidth(d) ==
    CASE d = "d1" -> 500
      [] d = "d5" -> 80
      [] OTHER -> 120

Max(S) == CHOOSE x \in S : \A y \in S : x >= y

RECURSIVE WidthOfTabs(_, _)
\* the width of the first n tabs
WidthOfTabs(eds, n) ==
    IF n = 0 THEN 0 ELSE WidthOfTabs(eds, n - 1) + TabWidth(eds[n])

\* tab.offsetLeft of the tab at the 0-based index
offsetLeft(eds, index) == WidthOfTabs(eds, index)

\* tabsContainer.scrollWidth
scrollWidth(eds, visible) == Max({WidthOfTabs(eds, Len(eds)), visible})

(***************************************************************************)
(* The scroll bar keeps the scroll dimensions and the scroll position it   *)
(* was given.                                                              *)
(***************************************************************************)
setScrollDimensions(sb, width, total) ==
    [sb EXCEPT !.width = width, !.scrollWidth = total]

setScrollPosition(sb, scrollLeft) == [sb EXCEPT !.scrollLeft = scrollLeft]

(***************************************************************************)
(* Layout: layout() schedules one runner per animation frame, the runner   *)
(* calls doLayout.                                                         *)
(***************************************************************************)
NoDimension == << >>
Dimension(width) == <<width>>

NoTab == [index |-> -1]

\* getTab(editor): the tab element at the editor's index, if there is one
getTab(eds, editor, children) ==
    LET editorIndex == IndexOf(eds, editor)
    IN  IF editorIndex >= 0 /\ editorIndex < Len(children)
        THEN children[editorIndex + 1]
        ELSE NoTab

\* layout(dim), called after the host's mutation and the handler's changes
\* of the tab elements
layout_AlwaysSchedules(dim) ==
    IF getTab(editors', activeEditor', tabsContainer') = NoTab \/ dim = NoDimension
    THEN UNCHANGED layoutVars
    ELSE /\ dimension' = dim
         /\ layoutScheduled' = TRUE
         /\ scheduledRunners' = scheduledRunners + 1
         /\ layoutCalls' = Min({layoutCalls + 1, MaxLayoutCalls})

layout(dim) ==
    IF getTab(editors', activeEditor', tabsContainer') = NoTab \/ dim = NoDimension
    THEN UNCHANGED layoutVars
    ELSE /\ dimension' = dim
         /\ layoutScheduled' = TRUE
         /\ scheduledRunners' = IF layoutScheduled THEN scheduledRunners
                                ELSE scheduledRunners + 1
         /\ layoutCalls' = Min({layoutCalls + 1, MaxLayoutCalls})

\* doLayout: the scroll bar and the flag after the pass, and what the pass did
doLayout_SnapsLeft(eds, editor, children, visible, sb, block) ==
    LET updated == setScrollDimensions(sb, visible, scrollWidth(eds, visible))
    IN  IF getTab(eds, editor, children) = NoTab
        THEN [scrollbar |-> sb, blockRevealActiveTab |-> block, outcome |-> "aborted"]
        ELSE IF block
        THEN [scrollbar |-> updated, blockRevealActiveTab |-> FALSE,
              outcome |-> "suppressed"]
        ELSE [scrollbar |-> setScrollPosition(updated,
                                offsetLeft(eds, IndexOf(eds, editor))),
              blockRevealActiveTab |-> block, outcome |-> "left"]

doLayout_KeepsBlocked(eds, editor, children, visible, sb, block) ==
    LET updated == setScrollDimensions(sb, visible, scrollWidth(eds, visible))
    IN  IF getTab(eds, editor, children) = NoTab
        THEN [scrollbar |-> sb, blockRevealActiveTab |-> block, outcome |-> "aborted"]
        ELSE [scrollbar |-> updated, blockRevealActiveTab |-> block,
              outcome |-> IF block THEN "suppressed" ELSE "unchanged"]

doLayout_IgnoresWideTab(eds, editor, children, visible, sb, block) ==
    LET activeTab == getTab(eds, editor, children)
        visibleContainerWidth == visible
        totalContainerWidth == scrollWidth(eds, visible)
        activeTabPosX == offsetLeft(eds, IndexOf(eds, editor))
        activeTabWidth == TabWidth(editor)
        updated == setScrollDimensions(sb, visibleContainerWidth, totalContainerWidth)
        containerScrollPosX == updated.scrollLeft
        activeTabFits == activeTabWidth <= visibleContainerWidth
    IN  IF activeTab = NoTab
        THEN [scrollbar |-> sb, blockRevealActiveTab |-> block, outcome |-> "aborted"]
        ELSE IF block
        THEN [scrollbar |-> updated, blockRevealActiveTab |-> FALSE,
              outcome |-> "suppressed"]
        ELSE IF /\ activeTabFits
                /\ containerScrollPosX + visibleContainerWidth
                      < activeTabPosX + activeTabWidth
        THEN [scrollbar |-> setScrollPosition(updated,
                  containerScrollPosX + ((activeTabPosX + activeTabWidth)
                      - (containerScrollPosX + visibleContainerWidth))),
              blockRevealActiveTab |-> block, outcome |-> "right"]
        ELSE IF containerScrollPosX > activeTabPosX
        THEN [scrollbar |-> setScrollPosition(updated, activeTabPosX),
              blockRevealActiveTab |-> block, outcome |-> "left"]
        ELSE [scrollbar |-> updated, blockRevealActiveTab |-> block,
              outcome |-> "unchanged"]

doLayout_UpdatesBeforeAbort(eds, editor, children, visible, sb, block) ==
    LET activeTab == getTab(eds, editor, children)
        visibleContainerWidth == visible
        totalContainerWidth == scrollWidth(eds, visible)
        activeTabPosX == offsetLeft(eds, IndexOf(eds, editor))
        activeTabWidth == TabWidth(editor)
        updated == setScrollDimensions(sb, visibleContainerWidth, totalContainerWidth)
        containerScrollPosX == updated.scrollLeft
        activeTabFits == activeTabWidth <= visibleContainerWidth
    IN  IF activeTab = NoTab
        THEN [scrollbar |-> updated, blockRevealActiveTab |-> block,
              outcome |-> "aborted"]
        ELSE IF block
        THEN [scrollbar |-> updated, blockRevealActiveTab |-> FALSE,
              outcome |-> "suppressed"]
        ELSE IF /\ activeTabFits
                /\ containerScrollPosX + visibleContainerWidth
                      < activeTabPosX + activeTabWidth
        THEN [scrollbar |-> setScrollPosition(updated,
                  containerScrollPosX + ((activeTabPosX + activeTabWidth)
                      - (containerScrollPosX + visibleContainerWidth))),
              blockRevealActiveTab |-> block, outcome |-> "right"]
        ELSE IF containerScrollPosX > activeTabPosX \/ ~activeTabFits
        THEN [scrollbar |-> setScrollPosition(updated, activeTabPosX),
              blockRevealActiveTab |-> block, outcome |-> "left"]
        ELSE [scrollbar |-> updated, blockRevealActiveTab |-> block,
              outcome |-> "unchanged"]

doLayout_ClearsOnAbort(eds, editor, children, visible, sb, block) ==
    LET activeTab == getTab(eds, editor, children)
        visibleContainerWidth == visible
        totalContainerWidth == scrollWidth(eds, visible)
        activeTabPosX == offsetLeft(eds, IndexOf(eds, editor))
        activeTabWidth == TabWidth(editor)
        updated == setScrollDimensions(sb, visibleContainerWidth, totalContainerWidth)
        containerScrollPosX == updated.scrollLeft
        activeTabFits == activeTabWidth <= visibleContainerWidth
    IN  IF activeTab = NoTab
        THEN [scrollbar |-> sb, blockRevealActiveTab |-> FALSE, outcome |-> "aborted"]
        ELSE IF block
        THEN [scrollbar |-> updated, blockRevealActiveTab |-> FALSE,
              outcome |-> "suppressed"]
        ELSE IF /\ activeTabFits
                /\ containerScrollPosX + visibleContainerWidth
                      < activeTabPosX + activeTabWidth
        THEN [scrollbar |-> setScrollPosition(updated,
                  containerScrollPosX + ((activeTabPosX + activeTabWidth)
                      - (containerScrollPosX + visibleContainerWidth))),
              blockRevealActiveTab |-> block, outcome |-> "right"]
        ELSE IF containerScrollPosX > activeTabPosX \/ ~activeTabFits
        THEN [scrollbar |-> setScrollPosition(updated, activeTabPosX),
              blockRevealActiveTab |-> block, outcome |-> "left"]
        ELSE [scrollbar |-> updated, blockRevealActiveTab |-> block,
              outcome |-> "unchanged"]

doLayout(eds, editor, children, visible, sb, block) ==
    LET activeTab == getTab(eds, editor, children)
        visibleContainerWidth == visible
        totalContainerWidth == scrollWidth(eds, visible)
        activeTabPosX == offsetLeft(eds, IndexOf(eds, editor))
        activeTabWidth == TabWidth(editor)
        updated == setScrollDimensions(sb, visibleContainerWidth, totalContainerWidth)
        containerScrollPosX == updated.scrollLeft
        activeTabFits == activeTabWidth <= visibleContainerWidth
    IN  IF activeTab = NoTab
        THEN [scrollbar |-> sb, blockRevealActiveTab |-> block, outcome |-> "aborted"]
        ELSE IF block
        THEN [scrollbar |-> updated, blockRevealActiveTab |-> FALSE,
              outcome |-> "suppressed"]
        ELSE IF /\ activeTabFits
                /\ containerScrollPosX + visibleContainerWidth
                      < activeTabPosX + activeTabWidth
        THEN [scrollbar |-> setScrollPosition(updated,
                  containerScrollPosX + ((activeTabPosX + activeTabWidth)
                      - (containerScrollPosX + visibleContainerWidth))),
              blockRevealActiveTab |-> block, outcome |-> "right"]
        ELSE IF containerScrollPosX > activeTabPosX \/ ~activeTabFits
        THEN [scrollbar |-> setScrollPosition(updated, activeTabPosX),
              blockRevealActiveTab |-> block, outcome |-> "left"]
        ELSE [scrollbar |-> updated, blockRevealActiveTab |-> block,
              outcome |-> "unchanged"]

RECURSIVE RunScheduled(_, _, _, _, _, _)
\* the animation frame runs every queued runner, one after the other
RunScheduled(n, eds, editor, children, visible, state) ==
    IF n = 0 THEN state
    ELSE RunScheduled(n - 1, eds, editor, children, visible,
             doLayout(eds, editor, children, visible,
                      state.scrollbar, state.blockRevealActiveTab))

(***************************************************************************)
(* Redraw.  A tab element's style is what redrawTab applied to it last:    *)
(* the label, the borders, the classes of the options, the active state    *)
(* and the dirty state.                                                    *)
(***************************************************************************)
TabCloseButtons == {"off", "left", "right"}
TabSizings == {"fit", "shrink"}

\* the options the workbench starts with
DefaultOptions ==
    [tabCloseButton |-> "right", tabSizing |-> "fit", showIcons |-> TRUE,
     iconTheme |-> "theme", openPositioning |-> "right"]

\* accessor.partOptions as one snapshot
Options(format, options) ==
    [labelFormat |-> format, tabCloseButton |-> options.tabCloseButton,
     tabSizing |-> options.tabSizing, showIcons |-> options.showIcons,
     iconTheme |-> options.iconTheme, openPositioning |-> options.openPositioning]

\* a tab element createTab has made and no redraw has drawn
NoStyle ==
    [name |-> "", description |-> EmptyString, title |-> "", italic |-> FALSE,
     borderLeft |-> FALSE, borderRight |-> FALSE, closeButton |-> "none",
     sizing |-> "none", hasIconTheme |-> FALSE, active |-> FALSE,
     focused |-> FALSE, dirty |-> FALSE]

redrawLabel(style, editor, tabLabel, pinned) ==
    [style EXCEPT !.name = tabLabel.name,
                  !.description = IF IsString(tabLabel.description)
                                  THEN tabLabel.description ELSE EmptyString,
                  !.title = tabLabel.title,
                  !.italic = editor \notin pinned]

\* the class active, and the colours of a focused or an unfocused group
redrawEditorActive_KeepsMark(style, isGroupActive, editor, active) ==
    [style EXCEPT !.active = (@ \/ active = editor),
                  !.focused = isGroupActive]

redrawEditorActive(style, isGroupActive, editor, active) ==
    [style EXCEPT !.active = (active = editor),
                  !.focused = isGroupActive]

redrawEditorDirty(style, editor, dirty) ==
    [style EXCEPT !.dirty = (editor \in dirty)]

\* the borders redrawTab gives the tab at the index
redrawBorders_LeftmostLeft(style, index, count) ==
    [style EXCEPT !.borderLeft = (index = 0),
                  !.borderRight = (index = count - 1)]

redrawBorders(style, index, count) ==
    [style EXCEPT !.borderLeft = (index # 0),
                  !.borderRight = (index = count - 1)]

\* the classes redrawTab sets from the options
redrawSettings(style, options) ==
    [style EXCEPT !.closeButton = IF options.tabCloseButton \in TabCloseButtons
                                  THEN options.tabCloseButton ELSE "none",
                  !.sizing = IF options.tabSizing \in TabSizings
                             THEN options.tabSizing ELSE "none",
                  !.hasIconTheme = options.showIcons /\ options.iconTheme # ""]

redrawTab(style, editor, index, count, tabLabel, options, active, dirty, pinned, isGroupActive) ==
    redrawEditorDirty(
        redrawEditorActive(
            redrawSettings(
                redrawBorders(redrawLabel(style, editor, tabLabel, pinned),
                              index, count),
                options),
            isGroupActive, editor, active),
        editor, dirty)

\* forEachTab(redrawTab): every editor that has a tab element
redrawTabs(styles, eds, labels, options, active, dirty, pinned, isGroupActive) ==
    [k \in 1..Len(styles) |->
        IF k <= Len(eds)
        THEN redrawTab(styles[k], eds[k], k - 1, Len(eds), labels[k], options,
                       active, dirty, pinned, isGroupActive)
        ELSE styles[k]]

\* forEachTab(redrawLabel)
redrawLabels(styles, eds, labels, pinned) ==
    [k \in 1..Len(styles) |->
        IF k <= Len(eds)
        THEN redrawLabel(styles[k], eds[k], labels[k], pinned)
        ELSE styles[k]]

(***************************************************************************)
(* The control's handlers.  Each reads the host's state after the          *)
(* mutation (the primed host variables).                                   *)
(***************************************************************************)
\* the state of a tab element no drag has touched
NoDrag == [counter |-> 0, draggedOver |-> FALSE, dropFeedback |-> FALSE]

\* the indices openEditor's loop creates tabs with
CreatedIndices(children, count) == Len(children)..(count - 1)

\* the indices bound to the disposables closeEditor's loop pops
PoppedIndices(disposables, children, count) ==
    {disposables[k].index : k \in (Len(RemoveClosedTabs(disposables, children, count)) + 1)
                                     ..Len(disposables)}

\* updateEditorActionsToolbar shows the active editor's actions,
\* clearEditorActionsToolbar shows none
updateEditorActionsToolbar(editor) == IF editor = NoEditor THEN {} ELSE {editor}
clearEditorActionsToolbar == {}

\* dragState: the per-tab drag state the event has left so far
openEditor(dragState) ==
    /\ tabsContainer' = CreateTabs(tabsContainer, tabsContainer, Len(editors'))
    /\ tabLabelWidgets' = CreateTabs(tabLabelWidgets, tabsContainer, Len(editors'))
    /\ tabDisposeables' = CreateTabs(tabDisposeables, tabsContainer, Len(editors'))
    /\ hookedTabs' = hookedTabs \cup CreatedIndices(tabsContainer, Len(editors'))
    /\ tabDrag' = dragState \o [k \in 1..(Len(editors') - Len(tabsContainer)) |-> NoDrag]
    /\ tabLabels' = computeTabLabels(renamed', editors', labelFormat')
    /\ tabStyles' = redrawTabs(
            tabStyles \o [k \in 1..(Len(editors') - Len(tabsContainer)) |-> NoStyle],
            editors', tabLabels', partOptions', activeEditor', dirtyEditors',
            pinnedEditors', activeGroup')
    /\ editorActionsToolbar' = updateEditorActionsToolbar(activeEditor')
    /\ layout(dimension)

closeEditor_KeepsLabels(dragState) ==
    IF activeEditor' # NoEditor
    THEN /\ tabsContainer' = RemoveClosedTabs(tabsContainer, tabsContainer, Len(editors'))
         /\ tabLabelWidgets' = RemoveClosedTabs(tabLabelWidgets, tabsContainer, Len(editors'))
         /\ tabDisposeables' = RemoveClosedTabs(tabDisposeables, tabsContainer, Len(editors'))
         /\ hookedTabs' = hookedTabs
                \ PoppedIndices(tabDisposeables, tabsContainer, Len(editors'))
         /\ tabDrag' = RemoveClosedTabs(dragState, tabsContainer, Len(editors'))
         /\ tabLabels' = RemoveClosedTabs(tabLabels, tabsContainer, Len(editors'))
         /\ tabStyles' = redrawTabs(
                 RemoveClosedTabs(tabStyles, tabsContainer, Len(editors')),
                 editors', tabLabels', partOptions', activeEditor', dirtyEditors',
                 pinnedEditors', activeGroup')
         /\ editorActionsToolbar' = updateEditorActionsToolbar(activeEditor')
         /\ layout(dimension)
    ELSE /\ tabsContainer' = << >>
         /\ tabLabelWidgets' = << >>
         /\ tabDisposeables' = << >>
         /\ hookedTabs' = hookedTabs \ {x.index : x \in Range(tabDisposeables)}
         /\ tabDrag' = << >>
         /\ tabLabels' = << >>
         /\ tabStyles' = << >>
         /\ editorActionsToolbar' = clearEditorActionsToolbar
         /\ UNCHANGED layoutVars

closeEditor_LeavesListeners(dragState) ==
    IF activeEditor' # NoEditor
    THEN /\ tabsContainer' = RemoveClosedTabs(tabsContainer, tabsContainer, Len(editors'))
         /\ tabLabelWidgets' = RemoveClosedTabs(tabLabelWidgets, tabsContainer, Len(editors'))
         /\ tabDisposeables' = RemoveClosedTabs(tabDisposeables, tabsContainer, Len(editors'))
         /\ hookedTabs' = hookedTabs
         /\ tabDrag' = RemoveClosedTabs(dragState, tabsContainer, Len(editors'))
         /\ tabLabels' = computeTabLabels(renamed', editors', labelFormat')
         /\ tabStyles' = redrawTabs(
                 RemoveClosedTabs(tabStyles, tabsContainer, Len(editors')),
                 editors', tabLabels', partOptions', activeEditor', dirtyEditors',
                 pinnedEditors', activeGroup')
         /\ editorActionsToolbar' = updateEditorActionsToolbar(activeEditor')
         /\ layout(dimension)
    ELSE /\ tabsContainer' = << >>
         /\ tabLabelWidgets' = << >>
         /\ tabDisposeables' = << >>
         /\ hookedTabs' = hookedTabs \ {x.index : x \in Range(tabDisposeables)}
         /\ tabDrag' = << >>
         /\ tabLabels' = << >>
         /\ tabStyles' = << >>
         /\ editorActionsToolbar' = clearEditorActionsToolbar
         /\ UNCHANGED layoutVars

closeEditor(dragState) ==
    IF activeEditor' # NoEditor
    THEN /\ tabsContainer' = RemoveClosedTabs(tabsContainer, tabsContainer, Len(editors'))
         /\ tabLabelWidgets' = RemoveClosedTabs(tabLabelWidgets, tabsContainer, Len(editors'))
         /\ tabDisposeables' = RemoveClosedTabs(tabDisposeables, tabsContainer, Len(editors'))
         /\ hookedTabs' = hookedTabs
                \ PoppedIndices(tabDisposeables, tabsContainer, Len(editors'))
         /\ tabDrag' = RemoveClosedTabs(dragState, tabsContainer, Len(editors'))
         /\ tabLabels' = computeTabLabels(renamed', editors', labelFormat')
         /\ tabStyles' = redrawTabs(
                 RemoveClosedTabs(tabStyles, tabsContainer, Len(editors')),
                 editors', tabLabels', partOptions', activeEditor', dirtyEditors',
                 pinnedEditors', activeGroup')
         /\ editorActionsToolbar' = updateEditorActionsToolbar(activeEditor')
         /\ layout(dimension)
    ELSE /\ tabsContainer' = << >>
         /\ tabLabelWidgets' = << >>
         /\ tabDisposeables' = << >>
         /\ hookedTabs' = hookedTabs \ {x.index : x \in Range(tabDisposeables)}
         /\ tabDrag' = << >>
         /\ tabLabels' = << >>
         /\ tabStyles' = << >>
         /\ editorActionsToolbar' = clearEditorActionsToolbar
         /\ UNCHANGED layoutVars

moveEditor_SkipsLayout(fromIndex, targetIndex) ==
    /\ tabLabels' = MoveLabel(tabLabels, fromIndex, targetIndex)
    /\ tabStyles' = redrawTabs(tabStyles, editors', tabLabels', partOptions',
                               activeEditor', dirtyEditors', pinnedEditors',
                 activeGroup')
    /\ UNCHANGED <<tabsContainer, tabLabelWidgets, tabDisposeables, hookedTabs,
                   editorActionsToolbar>>
    /\ UNCHANGED layoutVars

\* the per-tab drag state is left to the event that moved the editor
moveEditor(fromIndex, targetIndex) ==
    /\ tabLabels' = MoveLabel(tabLabels, fromIndex, targetIndex)
    /\ tabStyles' = redrawTabs(tabStyles, editors', tabLabels', partOptions',
                               activeEditor', dirtyEditors', pinnedEditors',
                 activeGroup')
    /\ UNCHANGED <<tabsContainer, tabLabelWidgets, tabDisposeables, hookedTabs,
                   editorActionsToolbar>>
    /\ layout(dimension)

updateEditorLabel ==
    /\ tabLabels' = computeTabLabels(renamed', editors', labelFormat')
    /\ tabStyles' = redrawLabels(tabStyles, editors', tabLabels', pinnedEditors')
    /\ UNCHANGED <<tabsContainer, tabLabelWidgets, tabDisposeables, hookedTabs,
                   editorActionsToolbar, tabDrag>>
    /\ layout(dimension)

updateOptions_IgnoresIconTheme(oldOptions, newOptions) ==
    /\ tabLabels' = IF oldOptions.labelFormat # newOptions.labelFormat
                    THEN computeTabLabels(renamed', editors', labelFormat')
                    ELSE tabLabels
    /\ UNCHANGED <<tabsContainer, tabLabelWidgets, tabDisposeables, hookedTabs, tabDrag>>
    /\ IF \/ oldOptions.labelFormat # newOptions.labelFormat
          \/ oldOptions.tabCloseButton # newOptions.tabCloseButton
          \/ oldOptions.tabSizing # newOptions.tabSizing
          \/ oldOptions.showIcons # newOptions.showIcons
       THEN /\ tabStyles' = redrawTabs(tabStyles, editors', tabLabels', partOptions',
                                       activeEditor', dirtyEditors', pinnedEditors',
                 activeGroup')
            /\ editorActionsToolbar' = updateEditorActionsToolbar(activeEditor')
            /\ layout(dimension)
       ELSE UNCHANGED <<tabStyles, editorActionsToolbar, layoutVars>>

updateOptions(oldOptions, newOptions) ==
    /\ tabLabels' = IF oldOptions.labelFormat # newOptions.labelFormat
                    THEN computeTabLabels(renamed', editors', labelFormat')
                    ELSE tabLabels
    /\ UNCHANGED <<tabsContainer, tabLabelWidgets, tabDisposeables, hookedTabs, tabDrag>>
    /\ IF \/ oldOptions.labelFormat # newOptions.labelFormat
          \/ oldOptions.tabCloseButton # newOptions.tabCloseButton
          \/ oldOptions.tabSizing # newOptions.tabSizing
          \/ oldOptions.showIcons # newOptions.showIcons
          \/ oldOptions.iconTheme # newOptions.iconTheme
       THEN /\ tabStyles' = redrawTabs(tabStyles, editors', tabLabels', partOptions',
                                       activeEditor', dirtyEditors', pinnedEditors',
                 activeGroup')
            /\ editorActionsToolbar' = updateEditorActionsToolbar(activeEditor')
            /\ layout(dimension)
       ELSE UNCHANGED <<tabStyles, editorActionsToolbar, layoutVars>>

\* withTab(editor, fn): the index of the editor's tab element, -1 when the
\* editor is not in the group or has no tab element
withTab_CountsFromTheEnd(eds, editor, children) ==
    LET editorIndex == IndexOf(eds, editor)
    IN  IF editorIndex < 0 THEN Len(children) + editorIndex
        ELSE IF editorIndex < Len(children) THEN editorIndex ELSE -1

withTab(eds, editor, children) ==
    LET editorIndex == IndexOf(eds, editor)
    IN  IF editorIndex >= 0 /\ editorIndex < Len(children) THEN editorIndex ELSE -1

pinEditor(editor) ==
    LET editorIndex == withTab(editors', editor, tabsContainer)
    IN  /\ tabStyles' =
              IF editorIndex >= 0
              THEN [tabStyles EXCEPT ![editorIndex + 1] =
                       redrawLabel(@, editor, tabLabels[editorIndex + 1],
                                   pinnedEditors')]
              ELSE tabStyles
        /\ UNCHANGED <<tabsContainer, tabLabelWidgets, tabDisposeables, tabLabels,
                       hookedTabs, editorActionsToolbar, tabDrag, layoutVars>>

updateEditorDirty(editor) ==
    LET editorIndex == withTab(editors', editor, tabsContainer)
    IN  /\ tabStyles' =
              IF editorIndex >= 0
              THEN [tabStyles EXCEPT ![editorIndex + 1] =
                       redrawEditorDirty(@, editor, dirtyEditors')]
              ELSE tabStyles
        /\ UNCHANGED <<tabsContainer, tabLabelWidgets, tabDisposeables, tabLabels,
                       hookedTabs, editorActionsToolbar, tabDrag, layoutVars>>

\* forEachTab(redrawEditorActive)
redrawEditorsActive(styles, eds, isGroupActive, active) ==
    [k \in 1..Len(styles) |->
        IF k <= Len(eds)
        THEN redrawEditorActive(styles[k], isGroupActive, eds[k], active)
        ELSE styles[k]]

setActive(isGroupActive) ==
    /\ UNCHANGED <<tabsContainer, tabLabelWidgets, tabDisposeables, tabLabels,
                   hookedTabs, tabDrag>>
    /\ tabStyles' = redrawEditorsActive(tabStyles, editors', isGroupActive,
                                        activeEditor')
    /\ editorActionsToolbar' = updateEditorActionsToolbar(activeEditor')
    /\ layout(dimension)

\* updateStyles(): redraw()
updateStyles ==
    /\ UNCHANGED <<tabsContainer, tabLabelWidgets, tabDisposeables, tabLabels,
                   hookedTabs, tabDrag>>
    /\ tabStyles' = redrawTabs(tabStyles, editors', tabLabels, partOptions',
                               activeEditor', dirtyEditors', pinnedEditors',
                               activeGroup')
    /\ editorActionsToolbar' = updateEditorActionsToolbar(activeEditor')
    /\ layout(dimension)

(***************************************************************************)
(* Actions: a host mutation together with the notification it delivers.    *)
(***************************************************************************)
\* history.step: "opened" after the open of a document that was not in the
\* group (with the tab count and the labels before it), "closed" after the
\* close of that document right after its open, "moved" after a move.
NoHistory == [step |-> "none"]

\* the strip without drop feedback and without the class scroll
NoContainerDrag == [dropFeedback |-> FALSE, scroll |-> FALSE]

\* the transfer slot without data
NoData == [editor |-> NoEditor, group |-> "none"]

\* no drag is in progress
NoSession == [kind |-> "none", index |-> -1]

\* what the drag is over: a tab of this strip, the strip beside its tabs, or
\* neither
Over(where, index) == [over |-> where, index |-> index]
OverNothing == Over("outside", -1)
OverContainer == Over("container", -1)

\* lastDrag before the first drag leave, drop or drag end of a drag:
\* afterwards lastDrag is the last of these events, for a drag leave with
\* the tab's index and its counter before it, for a drop with the
\* transfer slot, the group's count, the target index, the copy modifier
\* and what the drop asked of the host
NoDragEvent == [event |-> "none"]

\* lastFrame before the first animation frame that ran a layout
NoFrame == [runs |-> 0, calls |-> 0, outcome |-> "none"]

\* the host opens d and notifies the control
OpenAndNotify(d, index, activate, dragState) ==
    /\ d \notin Range(editors) => Len(editors) < MaxEditors
    /\ HostOpenEditor(d, index, activate)
    /\ openEditor(dragState)
    /\ history' = IF d \notin Range(editors)
                  THEN [step |-> "opened", editor |-> d,
                        count |-> Len(tabsContainer), labels |-> tabLabels]
                  ELSE NoHistory

OpenEditor(d, index, activate) ==
    /\ OpenAndNotify(d, index, activate, tabDrag)
    /\ UNCHANGED <<blockRevealActiveTab, scrollVars, controlVars, dragVars>>

\* the host closes d and notifies the control
CloseAndNotify(d, nextActive) ==
    /\ d \in Range(editors)
    /\ nextActive \in Range(editors) \ {d} \/ (Len(editors) = 1 /\ nextActive = NoEditor)
    /\ activeEditor # d => nextActive = activeEditor
    /\ HostCloseEditor(d, nextActive)
    /\ closeEditor(tabDrag)
    /\ history' = IF history.step = "opened" /\ history.editor = d
                  THEN [history EXCEPT !.step = "closed"]
                  ELSE NoHistory
    /\ UNCHANGED <<scrollVars, controlVars, dragVars>>

CloseEditor(d, nextActive) ==
    /\ CloseAndNotify(d, nextActive)
    /\ UNCHANGED blockRevealActiveTab

\* middle click on the tab created with this index: the reveal is blocked
\* once, then the editor at the index is closed
TabMouseUp(index, nextActive) ==
    /\ index < Len(tabsContainer)
    /\ index < Len(editors)
    /\ blockRevealActiveTab' = TRUE
    /\ CloseAndNotify(editors[index + 1], nextActive)

\* click on the close button of the tab created with this index: the action
\* bar blocks the reveal once before the action runs, then the action runner
\* closes the editor at the index
TabCloseButton(index, nextActive) ==
    /\ index < Len(tabsContainer)
    /\ index < Len(editors)
    /\ nextActive \in Range(editors) \ {editors[index + 1]}
          \/ (Len(editors) = 1 /\ nextActive = NoEditor)
    /\ activeEditor # editors[index + 1] => nextActive = activeEditor
    /\ blockRevealActiveTab' = TRUE
    /\ HostCloseEditor(editors[index + 1], nextActive)
    /\ closeEditor(tabDrag)
    /\ history' = [step |-> "closeButton",
                   count |-> IF history.step = "closeButton" /\ blockRevealActiveTab
                             THEN Min({history.count + 1, MaxCloseClicks})
                             ELSE 1]
    /\ UNCHANGED <<scrollVars, controlVars, dragVars>>

\* touch scroll on a tab; the gesture stays within the scroll range
TabTouchChange(translationX) ==
    /\ Len(tabsContainer) > 0
    /\ scrollbar.scrollLeft - translationX >= 0
    /\ scrollbar.scrollLeft - translationX <= scrollbar.scrollWidth - scrollbar.width
    /\ scrollbar' = setScrollPosition(scrollbar, scrollbar.scrollLeft - translationX)
    /\ UNCHANGED <<hostVars, tabVars, history, layoutVars, blockRevealActiveTab,
                   viewport, lastFrame, dragVars, controlVars>>

\* the host lays the control out after the window got the given width
Layout(width) ==
    /\ viewport' = width
    /\ UNCHANGED <<hostVars, tabVars>>
    /\ layout(Dimension(width))
    /\ UNCHANGED <<history, blockRevealActiveTab, scrollbar, lastFrame, dragVars,
                   controlVars>>

\* the next animation frame: the queued runners call doLayout and unset
\* this.layoutScheduled
AnimationFrame_StaysScheduled ==
    /\ scheduledRunners > 0
    /\ scheduledRunners' = 0
    /\ layoutCalls' = 0
    /\ lastFrame' = [runs |-> scheduledRunners, calls |-> layoutCalls,
                     outcome |-> "unchanged"]
    /\ UNCHANGED <<hostVars, tabVars, history, dimension, viewport,
                   layoutScheduled, scrollbar, blockRevealActiveTab, dragVars,
                   controlVars>>

AnimationFrame ==
    /\ scheduledRunners > 0
    /\ LET after == RunScheduled(scheduledRunners, editors, activeEditor,
                                 tabsContainer, viewport,
                                 [scrollbar |-> scrollbar,
                                  blockRevealActiveTab |-> blockRevealActiveTab,
                                  outcome |-> "none"])
       IN  /\ scrollbar' = after.scrollbar
           /\ blockRevealActiveTab' = after.blockRevealActiveTab
           /\ lastFrame' = [runs |-> scheduledRunners, calls |-> layoutCalls,
                            outcome |-> after.outcome]
    /\ layoutScheduled' = FALSE
    /\ scheduledRunners' = 0
    /\ layoutCalls' = 0
    /\ UNCHANGED <<hostVars, tabVars, history, dimension, viewport, dragVars,
                   controlVars>>

\* the host moves d and notifies the control
MoveAndNotify(d, targetIndex) ==
    /\ d \in Range(editors)
    /\ targetIndex # IndexOf(editors, d)
    /\ HostMoveEditor(d, targetIndex)
    /\ moveEditor(IndexOf(editors, d), targetIndex)
    /\ history' = [step |-> "moved"]

MoveEditor(d, targetIndex) ==
    /\ MoveAndNotify(d, targetIndex)
    /\ UNCHANGED <<tabDrag, blockRevealActiveTab, scrollVars, controlVars, dragVars>>

UpdateEditorLabel(d) ==
    /\ d \in Range(editors)
    /\ HostRenameEditor(d)
    /\ updateEditorLabel
    /\ history' = NoHistory
    /\ UNCHANGED <<blockRevealActiveTab, scrollVars, controlVars, dragVars>>

UpdateOptions(newOptions) ==
    /\ HostSetOptions(newOptions)
    /\ updateOptions(Options(labelFormat, partOptions), newOptions)
    /\ history' = NoHistory
    /\ UNCHANGED <<blockRevealActiveTab, scrollVars, controlVars, dragVars>>

\* history after a pin or a dirty notification: the step, its editor, and a
\* bit that tells the notification from the one before it
Notified(step, d) ==
    [step |-> step, editor |-> d,
     again |-> IF history.step = step THEN ~history.again ELSE FALSE]

\* the host pins d if it is in the group, and notifies the control
PinEditor(d) ==
    /\ pinnedEditors' = IF d \in Range(editors) THEN pinnedEditors \cup {d}
                        ELSE pinnedEditors
    /\ UNCHANGED <<editors, activeEditor, renamed, labelFormat, partOptions,
                   dirtyEditors, activeGroup>>
    /\ pinEditor(d)
    /\ history' = Notified("pinned", d)
    /\ UNCHANGED <<blockRevealActiveTab, scrollVars, controlVars, dragVars>>

\* d becomes dirty or is saved, and the control is notified
UpdateEditorDirty(d) ==
    /\ dirtyEditors' = IF d \in dirtyEditors THEN dirtyEditors \ {d}
                       ELSE dirtyEditors \cup {d}
    /\ UNCHANGED <<editors, activeEditor, renamed, labelFormat, partOptions,
                   pinnedEditors, activeGroup>>
    /\ updateEditorDirty(d)
    /\ history' = Notified("dirty", d)
    /\ UNCHANGED <<blockRevealActiveTab, scrollVars, controlVars, dragVars>>

\* the group gets or loses the focus, and the control is notified
SetActive(isGroupActive) ==
    /\ activeGroup' = isGroupActive
    /\ UNCHANGED <<editors, activeEditor, renamed, labelFormat, partOptions,
                   dirtyEditors, pinnedEditors>>
    /\ setActive(isGroupActive)
    /\ history' = Notified("active", NoEditor)
    /\ UNCHANGED <<blockRevealActiveTab, scrollVars, controlVars, dragVars>>

\* the colour theme changes, and the control is notified
UpdateStyles ==
    /\ UNCHANGED hostVars
    /\ updateStyles
    /\ history' = Notified("styles", NoEditor)
    /\ UNCHANGED <<blockRevealActiveTab, scrollVars, controlVars, dragVars>>

(***************************************************************************)
(* Drag and drop.  A drag session starts on a tab of this strip, on a tab  *)
(* of another group's strip or outside the workbench; while it lasts the   *)
(* browser tells the strip what the drag enters, leaves and is over, and   *)
(* it ends with a drop or with the drag's end.                             *)
(***************************************************************************)
ThisGroup == "this"
OtherGroup == "other"

DraggedEditorIdentifier(editor, group) == [editor |-> editor, group |-> group]

\* the drag-enter listener's draggedEditorIsTab
draggedEditorIsTab(index) ==
    /\ transfer # NoData
    /\ index < Len(editors)
    /\ transfer.editor = editors[index + 1]
    /\ transfer.group = ThisGroup

\* the drag-over listener's draggedEditorIsLastTab
draggedEditorIsLastTab ==
    /\ transfer # NoData
    /\ transfer.group = ThisGroup
    /\ IndexOf(editors, transfer.editor) = Len(editors) - 1

isMoveOperation_IgnoresSource(ctrlKey, altKey, isMacintosh, source) ==
    ~((ctrlKey /\ ~isMacintosh) \/ (altKey /\ isMacintosh))

isMoveOperation(ctrlKey, altKey, isMacintosh, source) ==
    LET isCopy == (ctrlKey /\ ~isMacintosh) \/ (altKey /\ isMacintosh)
    IN  ~isCopy \/ source = ThisGroup

\* counter = 0, the class dragged-over removed, the drop feedback cleared
ResetTab(dragState, index) == [dragState EXCEPT ![index + 1] = NoDrag]

AllCountersZero(dragState) == \A k \in 1..Len(dragState) : dragState[k].counter = 0

\* what onDrop asks of the host: the group asked, the call, the editor, the
\* group and the index the editor is to go to
Request(receiver, call, editor, target, index) ==
    [receiver |-> receiver, call |-> call, editor |-> editor,
     target |-> target, index |-> index]

\* the platform's copy modifier is held
CopyModifier(ctrlKey, altKey, isMacintosh) ==
    IF isMacintosh THEN altKey ELSE ctrlKey

\* lastDrag after a drop
Dropped(targetIndex, copy, request) ==
    [event |-> "drop", dragged |-> transfer, last |-> draggedEditorIsLastTab,
     index |-> targetIndex, count |-> Len(editors), copy |-> copy,
     request |-> request]

\* the drop left the host and the tabs as they were
NothingMoved(dragState) ==
    /\ tabDrag' = dragState
    /\ UNCHANGED <<hostVars, tabsContainer, tabLabelWidgets, tabDisposeables,
                   tabLabels, hookedTabs, editorActionsToolbar, tabStyles, history,
                   layoutVars>>

onDrop_OpensWithoutData(targetIndex, dragState, ctrlKey, altKey, isMacintosh) ==
    /\ containerDrag' = NoContainerDrag
    /\ IF transfer # NoData
       THEN /\ IF isMoveOperation(ctrlKey, altKey, isMacintosh, transfer.group)
               THEN /\ lastDrag' = Dropped(targetIndex,
                                       CopyModifier(ctrlKey, altKey, isMacintosh),
                                       Request(transfer.group, "moveEditor",
                                               transfer.editor, ThisGroup, targetIndex))
                    /\ IF transfer.group # ThisGroup
                       THEN OpenAndNotify(transfer.editor, targetIndex, TRUE, dragState)
                       ELSE IF targetIndex # IndexOf(editors, transfer.editor)
                       THEN /\ MoveAndNotify(transfer.editor, targetIndex)
                            /\ tabDrag' = dragState
                       ELSE NothingMoved(dragState)
               ELSE /\ lastDrag' = Dropped(targetIndex,
                                       CopyModifier(ctrlKey, altKey, isMacintosh),
                                       Request(ThisGroup, "openEditor",
                                               transfer.editor, ThisGroup, targetIndex))
                    /\ OpenAndNotify(transfer.editor, targetIndex, TRUE, dragState)
            /\ transfer' = NoData
       ELSE /\ lastDrag' = Dropped(targetIndex,
                               CopyModifier(ctrlKey, altKey, isMacintosh),
                               Request(ThisGroup, "openEditor", NoEditor, ThisGroup,
                                       targetIndex))
            /\ NothingMoved(dragState)
            /\ UNCHANGED transfer
    /\ session' = NoSession
    /\ pointer' = OverNothing
    /\ UNCHANGED <<blockRevealActiveTab, scrollVars, controlVars>>

\* onDrop(e, targetIndex), after the drop listener left dragState
onDrop(targetIndex, dragState, ctrlKey, altKey, isMacintosh) ==
    /\ containerDrag' = NoContainerDrag
    /\ IF transfer # NoData
       THEN /\ IF isMoveOperation(ctrlKey, altKey, isMacintosh, transfer.group)
               THEN /\ lastDrag' = Dropped(targetIndex,
                                       CopyModifier(ctrlKey, altKey, isMacintosh),
                                       Request(transfer.group, "moveEditor",
                                               transfer.editor, ThisGroup, targetIndex))
                    /\ IF transfer.group # ThisGroup
                       THEN OpenAndNotify(transfer.editor, targetIndex, TRUE, dragState)
                       ELSE IF targetIndex # IndexOf(editors, transfer.editor)
                       THEN /\ MoveAndNotify(transfer.editor, targetIndex)
                            /\ tabDrag' = dragState
                       ELSE NothingMoved(dragState)
               ELSE /\ lastDrag' = Dropped(targetIndex,
                                       CopyModifier(ctrlKey, altKey, isMacintosh),
                                       Request(ThisGroup, "openEditor",
                                               transfer.editor, ThisGroup, targetIndex))
                    /\ OpenAndNotify(transfer.editor, targetIndex, TRUE, dragState)
            /\ transfer' = NoData
       ELSE /\ lastDrag' = Dropped(targetIndex,
                               CopyModifier(ctrlKey, altKey, isMacintosh),
                               Request(ThisGroup, "handleDrop", NoEditor, ThisGroup,
                                       targetIndex))
            /\ NothingMoved(dragState)
            /\ UNCHANGED transfer
    /\ session' = NoSession
    /\ pointer' = OverNothing
    /\ UNCHANGED <<blockRevealActiveTab, scrollVars, controlVars>>

\* drag start on the tab created with this index
TabDragStart(index) ==
    /\ session = NoSession
    /\ index < Len(tabsContainer)
    /\ index < Len(editors)
    /\ transfer' = DraggedEditorIdentifier(editors[index + 1], ThisGroup)
    /\ session' = [kind |-> "local", index |-> index]
    /\ lastDrag' = NoDragEvent
    /\ UNCHANGED <<hostVars, tabVars, history, layoutVars, blockRevealActiveTab,
                   scrollVars, controlVars, containerDrag, pointer>>

\* drag start on a tab of the other group's strip, with an editor this group
\* does not show and has room for
OtherDragStart(d) ==
    /\ session = NoSession
    /\ d \notin Range(editors)
    /\ Len(editors) < MaxEditors
    /\ transfer' = DraggedEditorIdentifier(d, OtherGroup)
    /\ session' = [kind |-> "other", index |-> -1]
    /\ lastDrag' = NoDragEvent
    /\ UNCHANGED <<hostVars, tabVars, history, layoutVars, blockRevealActiveTab,
                   scrollVars, controlVars, containerDrag, pointer>>

\* a drag of files starts outside the workbench
ExternalDragStart ==
    /\ session = NoSession
    /\ session' = [kind |-> "external", index |-> -1]
    /\ lastDrag' = NoDragEvent
    /\ UNCHANGED <<hostVars, tabVars, history, layoutVars, blockRevealActiveTab,
                   scrollVars, controlVars, containerDrag, transfer, pointer>>

\* drag enter on the tab created with this index, or on a child of it
TabDragEnter(index) ==
    /\ session # NoSession
    /\ index < Len(tabsContainer)
    /\ tabDrag[index + 1].counter < MaxDragEnters
    /\ tabDrag' = [tabDrag EXCEPT ![index + 1] =
                      [counter |-> @.counter + 1,
                       draggedOver |-> TRUE,
                       dropFeedback |-> IF draggedEditorIsTab(index)
                                        THEN @.dropFeedback ELSE TRUE]]
    /\ pointer' = Over("tab", index)
    /\ UNCHANGED <<hostVars, tabsContainer, tabLabelWidgets, tabDisposeables,
                   tabLabels, hookedTabs, editorActionsToolbar, tabStyles, history,
                   layoutVars,
                   blockRevealActiveTab, scrollVars, controlVars, containerDrag, transfer,
                   session, lastDrag>>

\* drag leave on that tab or on a child of it; the event bubbles to the
\* strip's drag-leave listener
TabDragLeave_ClearsAtOnce(index) ==
    /\ session # NoSession
    /\ index < Len(tabsContainer)
    /\ tabDrag[index + 1].counter > 0
    /\ tabDrag' = [tabDrag EXCEPT ![index + 1] =
                      [counter |-> @.counter - 1,
                       draggedOver |-> FALSE,
                       dropFeedback |-> FALSE]]
    /\ containerDrag' = NoContainerDrag
    /\ lastDrag' = [event |-> "dragleave", index |-> index,
                    counter |-> tabDrag[index + 1].counter]
    /\ pointer' = IF pointer = Over("tab", index) /\ tabDrag[index + 1].counter = 1
                  THEN OverNothing ELSE pointer
    /\ UNCHANGED <<hostVars, tabsContainer, tabLabelWidgets, tabDisposeables,
                   tabLabels, hookedTabs, editorActionsToolbar, tabStyles, history,
                   layoutVars,
                   blockRevealActiveTab, scrollVars, controlVars, transfer, session>>

TabDragLeave(index) ==
    /\ session # NoSession
    /\ index < Len(tabsContainer)
    /\ tabDrag[index + 1].counter > 0
    /\ tabDrag' = [tabDrag EXCEPT ![index + 1] =
                      [counter |-> @.counter - 1,
                       draggedOver |-> IF @.counter - 1 = 0 THEN FALSE
                                       ELSE @.draggedOver,
                       dropFeedback |-> IF @.counter - 1 = 0 THEN FALSE
                                        ELSE @.dropFeedback]]
    /\ containerDrag' = NoContainerDrag
    /\ lastDrag' = [event |-> "dragleave", index |-> index,
                    counter |-> tabDrag[index + 1].counter]
    /\ pointer' = IF pointer = Over("tab", index) /\ tabDrag[index + 1].counter = 1
                  THEN OverNothing ELSE pointer
    /\ UNCHANGED <<hostVars, tabsContainer, tabLabelWidgets, tabDisposeables,
                   tabLabels, hookedTabs, editorActionsToolbar, tabStyles, history,
                   layoutVars,
                   blockRevealActiveTab, scrollVars, controlVars, transfer, session>>

\* drag over the strip: over one of its tabs, or beside them
ContainerDragOver_AlwaysShowsFeedback ==
    /\ session # NoSession
    /\ containerDrag' =
          [scroll |-> TRUE,
           dropFeedback |-> IF pointer.over # "tab"
                            THEN TRUE ELSE containerDrag.dropFeedback]
    /\ pointer' = IF pointer.over = "tab" THEN pointer ELSE OverContainer
    /\ UNCHANGED <<hostVars, tabVars, history, layoutVars, blockRevealActiveTab,
                   scrollVars, controlVars, transfer, session, lastDrag>>

ContainerDragOver ==
    /\ session # NoSession
    /\ containerDrag' =
          [scroll |-> TRUE,
           dropFeedback |-> IF pointer.over # "tab" /\ ~draggedEditorIsLastTab
                            THEN TRUE ELSE containerDrag.dropFeedback]
    /\ pointer' = IF pointer.over = "tab" THEN pointer ELSE OverContainer
    /\ UNCHANGED <<hostVars, tabVars, history, layoutVars, blockRevealActiveTab,
                   scrollVars, controlVars, transfer, session, lastDrag>>

\* the drag leaves the strip
ContainerDragLeave ==
    /\ session # NoSession
    /\ pointer = OverContainer
    /\ containerDrag' = NoContainerDrag
    /\ pointer' = OverNothing
    /\ UNCHANGED <<hostVars, tabVars, history, layoutVars, blockRevealActiveTab,
                   scrollVars, controlVars, transfer, session, lastDrag>>

\* drop on the tab created with this index
TabDrop(index, ctrlKey, altKey, isMacintosh) ==
    /\ session # NoSession
    /\ index < Len(tabsContainer)
    /\ pointer = Over("tab", index)
    /\ AllCountersZero(ResetTab(tabDrag, index))
    /\ onDrop(index, ResetTab(tabDrag, index), ctrlKey, altKey, isMacintosh)

\* drop on the strip beside its tabs
ContainerDrop(ctrlKey, altKey, isMacintosh) ==
    /\ session # NoSession
    /\ pointer = OverContainer
    /\ AllCountersZero(tabDrag)
    /\ onDrop(Len(editors), tabDrag, ctrlKey, altKey, isMacintosh)

\* the drag that started on the tab created with this index ends without a
\* drop on this strip; the event bubbles to the strip's drag-end listener
TabDragEnd_KeepsData(index) ==
    /\ session = [kind |-> "local", index |-> index]
    /\ index < Len(tabsContainer)
    /\ pointer = OverNothing
    /\ AllCountersZero(tabDrag)
    /\ tabDrag' = ResetTab(tabDrag, index)
    /\ containerDrag' = NoContainerDrag
    /\ session' = NoSession
    /\ lastDrag' = [event |-> "dragend"]
    /\ UNCHANGED <<hostVars, tabsContainer, tabLabelWidgets, tabDisposeables,
                   tabLabels, hookedTabs, editorActionsToolbar, tabStyles, history,
                   layoutVars,
                   blockRevealActiveTab, scrollVars, controlVars, pointer, transfer>>

TabDragEnd(index) ==
    /\ session = [kind |-> "local", index |-> index]
    /\ index < Len(tabsContainer)
    /\ pointer = OverNothing
    /\ AllCountersZero(tabDrag)
    /\ tabDrag' = ResetTab(tabDrag, index)
    /\ transfer' = NoData
    /\ containerDrag' = NoContainerDrag
    /\ session' = NoSession
    /\ lastDrag' = [event |-> "dragend"]
    /\ UNCHANGED <<hostVars, tabsContainer, tabLabelWidgets, tabDisposeables,
                   tabLabels, hookedTabs, editorActionsToolbar, tabStyles, history,
                   layoutVars,
                   blockRevealActiveTab, scrollVars, controlVars, pointer>>

\* a drag that started elsewhere ends without a drop on this strip; the
\* other group's strip clears the transfer slot at the end of its drag
DragEndsElsewhere ==
    /\ session.kind \in {"other", "external"}
    /\ pointer = OverNothing
    /\ AllCountersZero(tabDrag)
    /\ transfer' = IF session.kind = "other" THEN NoData ELSE transfer
    /\ session' = NoSession
    /\ UNCHANGED <<hostVars, tabVars, history, layoutVars, blockRevealActiveTab,
                   scrollVars, controlVars, containerDrag, pointer, lastDrag>>

\* the control after its construction, before the first notification
InitControl ==
    /\ renamed = {}
    /\ labelFormat = "default"
    /\ tabsContainer = << >>
    /\ tabLabelWidgets = << >>
    /\ tabDisposeables = << >>
    /\ tabLabels = << >>
    /\ history = NoHistory
    /\ dimension = NoDimension
    /\ layoutScheduled = FALSE
    /\ scheduledRunners = 0
    /\ blockRevealActiveTab = FALSE
    /\ scrollbar = [width |-> 0, scrollWidth |-> 0, scrollLeft |-> 0]
    /\ viewport = Max(Viewports)
    /\ layoutCalls = 0
    /\ lastFrame = NoFrame
    /\ hookedTabs = {}
    /\ editorActionsToolbar = {}
    /\ tabDrag = << >>
    /\ containerDrag = NoContainerDrag
    /\ transfer = NoData
    /\ session = NoSession
    /\ pointer = OverNothing
    /\ lastDrag = NoDragEvent
    /\ partOptions = DefaultOptions
    /\ dirtyEditors = {}
    /\ pinnedEditors = {}
    /\ activeGroup = TRUE
    /\ tabStyles = << >>
    /\ pendingOpens = << >>
    /\ disposed = FALSE

\* the control of a group that has no editors yet
Init ==
    /\ editors = << >>
    /\ activeEditor = NoEditor
    /\ InitControl

Next ==
    \/ \E d \in Docs, index \in 0..MaxEditors, activate \in BOOLEAN :
          /\ index <= Len(editors)
          /\ d \in Range(editors) => index = IndexOf(editors, d)
          /\ OpenEditor(d, index, activate)
    \/ \E d \in Docs, nextActive \in Docs \cup {NoEditor} : CloseEditor(d, nextActive)
    \/ \E d \in Docs, targetIndex \in 0..MaxEditors :
          targetIndex < Len(editors) /\ MoveEditor(d, targetIndex)
    \/ \E d \in Docs : UpdateEditorLabel(d)
    \/ \E format \in LabelFormats : UpdateOptions(Options(format, partOptions))

Spec == Init /\ [][Next]_vars

(***************************************************************************)
(* The strip with layout: the host lays the control out, animation frames  *)
(* fire, tabs are closed with the middle mouse button and scrolled by      *)
(* touch.  The documents are those of LayoutDocs.                          *)
(***************************************************************************)
LayoutDocs == {"d1", "d5"}

TouchTranslations == {-50, 50}

NextLayout ==
    \/ \E d \in LayoutDocs, activate \in BOOLEAN :
          OpenEditor(d, IF d \in Range(editors) THEN IndexOf(editors, d)
                        ELSE Len(editors), activate)
    \/ \E d \in LayoutDocs, nextActive \in LayoutDocs \cup {NoEditor} :
          CloseEditor(d, nextActive)
    \/ \E d \in LayoutDocs, targetIndex \in 0..MaxEditors :
          targetIndex < Len(editors) /\ MoveEditor(d, targetIndex)
    \/ \E index \in 0..MaxEditors, nextActive \in LayoutDocs \cup {NoEditor} :
          TabMouseUp(index, nextActive)
    \/ \E translationX \in TouchTranslations : TabTouchChange(translationX)
    \/ \E width \in Viewports : Layout(width)
    \/ AnimationFrame

SpecLayout == Init /\ [][NextLayout]_vars

\* animation frames keep firing
SpecLayoutFair == SpecLayout /\ WF_vars(AnimationFrame)

(***************************************************************************)
(* The strip with drag and drop.  The host changes the group only between  *)
(* drag sessions and through the drops.                                    *)
(***************************************************************************)
DragDocs == {"d1", "d2"}

NextDrag ==
    \/ \E d \in DragDocs, activate \in BOOLEAN :
          /\ session = NoSession
          /\ OpenEditor(d, IF d \in Range(editors) THEN IndexOf(editors, d)
                           ELSE Len(editors), activate)
    \/ \E d \in DragDocs, nextActive \in DragDocs \cup {NoEditor} :
          session = NoSession /\ CloseEditor(d, nextActive)
    \/ \E index \in 0..(MaxEditors - 1) : TabDragStart(index)
    \/ \E d \in DragDocs : OtherDragStart(d)
    \/ ExternalDragStart
    \/ \E index \in 0..(MaxEditors - 1) : TabDragEnter(index)
    \/ \E index \in 0..(MaxEditors - 1) : TabDragLeave(index)
    \/ ContainerDragOver
    \/ ContainerDragLeave
    \/ \E index \in 0..(MaxEditors - 1), ctrlKey, altKey, isMacintosh \in BOOLEAN :
          TabDrop(index, ctrlKey, altKey, isMacintosh)
    \/ \E ctrlKey, altKey, isMacintosh \in BOOLEAN :
          ContainerDrop(ctrlKey, altKey, isMacintosh)
    \/ \E index \in 0..(MaxEditors - 1) : TabDragEnd(index)
    \/ DragEndsElsewhere

SpecDrag == Init /\ [][NextDrag]_vars

(***************************************************************************)
(* The strip and the documents' pin and dirty state.  The control is       *)
(* created for a group without editors or for a group that has editors     *)
(* already; the latter gets its tabs with the first open notification, and *)
(* until then only pin, dirty and layout calls reach it.                   *)
(***************************************************************************)
RedrawDocs == {"d1", "d2"}

RedrawWidth == 600

\* every editor of the group has its tab element
Synced == Len(tabsContainer) = Len(editors)

InitRedraw ==
    /\ editors \in {<< >>, <<"d1", "d2">>}
    /\ activeEditor = IF editors = << >> THEN NoEditor ELSE editors[1]
    /\ InitControl

NextRedraw ==
    \/ \E d \in RedrawDocs, activate \in BOOLEAN :
          OpenEditor(d, IF d \in Range(editors) THEN IndexOf(editors, d)
                        ELSE Len(editors), activate)
    \/ \E d \in RedrawDocs, nextActive \in RedrawDocs \cup {NoEditor} :
          Synced /\ CloseEditor(d, nextActive)
    \/ \E d \in RedrawDocs : PinEditor(d)
    \/ \E d \in RedrawDocs : UpdateEditorDirty(d)
    \/ Layout(RedrawWidth)
    \/ AnimationFrame

SpecRedraw == InitRedraw /\ [][NextRedraw]_vars

(***************************************************************************)
(* The strip and its options: the configuration changes one option, or     *)
(* several at once, and the control is notified.                           *)
(***************************************************************************)
\* the option snapshots of the configuration: the default, and one for each
\* option changed
OptionSnapshots ==
    LET default == Options("default", DefaultOptions)
    IN  {default,
         [default EXCEPT !.labelFormat = "short"],
         [default EXCEPT !.tabCloseButton = "off"],
         [default EXCEPT !.tabSizing = "shrink"],
         [default EXCEPT !.showIcons = FALSE],
         [default EXCEPT !.iconTheme = ""],
         [default EXCEPT !.openPositioning = "left"]}

NextOptions ==
    \/ \E d \in RedrawDocs, activate \in BOOLEAN :
          OpenEditor(d, IF d \in Range(editors) THEN IndexOf(editors, d)
                        ELSE Len(editors), activate)
    \/ \E d \in RedrawDocs, nextActive \in RedrawDocs \cup {NoEditor} :
          CloseEditor(d, nextActive)
    \/ \E newOptions \in OptionSnapshots :
          /\ newOptions # Options(labelFormat, partOptions)
          /\ UpdateOptions(newOptions)
    \/ Layout(RedrawWidth)
    \/ AnimationFrame

SpecOptions == Init /\ [][NextOptions]_vars

(***************************************************************************)
(* The strip until it is disposed.  lifecycle.dispose disposes the handle  *)
(* scheduleAtNextAnimationFrame returned, which takes the runner off the   *)
(* animation frame queue; what it returns, and so what is stored in        *)
(* this.layoutScheduled, is the handle or nothing.  Nothing is called on a *)
(* disposed control; animation frames keep firing.                         *)
(***************************************************************************)
Dispose_LeavesRunner ==
    /\ ~disposed
    /\ disposed' = TRUE
    /\ UNCHANGED <<layoutScheduled, scheduledRunners>>
    /\ UNCHANGED <<hostVars, tabVars, history, dimension, layoutCalls,
                   blockRevealActiveTab, scrollVars, dragVars, pendingOpens>>

Dispose ==
    /\ ~disposed
    /\ disposed' = TRUE
    /\ \E handle \in {layoutScheduled, FALSE} : layoutScheduled' = handle
    /\ scheduledRunners' = 0
    /\ UNCHANGED <<hostVars, tabVars, history, dimension, layoutCalls,
                   blockRevealActiveTab, scrollVars, dragVars, pendingOpens>>

NextDispose ==
    \/ \E d \in LayoutDocs, activate \in BOOLEAN :
          /\ ~disposed
          /\ OpenEditor(d, IF d \in Range(editors) THEN IndexOf(editors, d)
                           ELSE Len(editors), activate)
    \/ \E d \in LayoutDocs, nextActive \in LayoutDocs \cup {NoEditor} :
          ~disposed /\ CloseEditor(d, nextActive)
    \/ \E d \in LayoutDocs, targetIndex \in 0..MaxEditors :
          ~disposed /\ targetIndex < Len(editors) /\ MoveEditor(d, targetIndex)
    \/ \E width \in Viewports : ~disposed /\ Layout(width)
    \/ AnimationFrame
    \/ Dispose

SpecDispose == Init /\ [][NextDispose]_vars

(***************************************************************************)
(* The strip with clicks.  A left click on a tab queues a callback with a  *)
(* zero delay; the host's notifications may come before the callback runs. *)
(* The callback asks the group for the editor at the index the listener    *)
(* was hooked with and opens it; the group opens nothing when it has no    *)
(* editor at that index.                                                   *)
(***************************************************************************)
ClickDocs == {"d1", "d2"}

\* left click on the tab created with this index, outside its action bar
TabClick(index) ==
    /\ index < Len(tabsContainer)
    /\ index \in hookedTabs
    /\ Len(pendingOpens) < MaxPendingOpens
    /\ pendingOpens' = Append(pendingOpens,
                              [index |-> index, shown |-> tabLabels[index + 1].editor])
    /\ UNCHANGED <<hostVars, tabVars, history, layoutVars, blockRevealActiveTab,
                   scrollVars, dragVars, disposed>>

\* the callback of the oldest click runs
Timeout ==
    /\ pendingOpens # << >>
    /\ pendingOpens' = Tail(pendingOpens)
    /\ LET index == Head(pendingOpens).index
           shown == Head(pendingOpens).shown
       IN  IF index < Len(editors)
           THEN /\ HostOpenEditor(editors[index + 1], index, TRUE)
                /\ openEditor(tabDrag)
                /\ history' = [step |-> "timeout", shown |-> shown,
                               opened |-> editors[index + 1]]
           ELSE /\ history' = [step |-> "timeout", shown |-> shown,
                               opened |-> NoEditor]
                /\ UNCHANGED <<hostVars, tabVars, layoutVars>>
    /\ UNCHANGED <<blockRevealActiveTab, scrollVars, dragVars, disposed>>

NextClick ==
    \/ \E d \in ClickDocs, index \in 0..MaxEditors, activate \in BOOLEAN :
          index <= Len(editors) /\ OpenEditor(d, index, activate)
    \/ \E d \in ClickDocs, nextActive \in ClickDocs \cup {NoEditor} :
          CloseEditor(d, nextActive)
    \/ \E d \in ClickDocs, targetIndex \in 0..MaxEditors :
          targetIndex < Len(editors) /\ MoveEditor(d, targetIndex)
    \/ \E index \in 0..MaxEditors : TabClick(index)
    \/ Timeout

SpecClick == Init /\ [][NextClick]_vars

(***************************************************************************)
(* The strip and the focus: the group gets and loses the focus, the colour *)
(* theme and the options change.                                           *)
(***************************************************************************)
ActiveDocs == {"d1", "d2", "d3"}

ActiveSnapshots ==
    {Options("default", DefaultOptions),
     Options("default", [DefaultOptions EXCEPT !.tabSizing = "shrink"])}

NextActive ==
    \/ \E d \in ActiveDocs, index \in 0..MaxEditors, activate \in BOOLEAN :
          index <= Len(editors) /\ OpenEditor(d, index, activate)
    \/ \E d \in ActiveDocs, nextActive \in ActiveDocs \cup {NoEditor} :
          CloseEditor(d, nextActive)
    \/ \E d \in ActiveDocs, targetIndex \in 0..MaxEditors :
          targetIndex < Len(editors) /\ MoveEditor(d, targetIndex)
    \/ \E newOptions \in ActiveSnapshots :
          newOptions # Options(labelFormat, partOptions) /\ UpdateOptions(newOptions)
    \/ UpdateStyles
    \/ \E isGroupActive \in BOOLEAN : SetActive(isGroupActive)

SpecActive == Init /\ [][NextActive]_vars

(***************************************************************************)
(* The strip and the close gestures: tabs are closed with their close      *)
(* button, with the middle mouse button and by the host, while the host    *)
(* lays the control out and animation frames fire.                         *)
(***************************************************************************)
BlockDocs == {"d1", "d2", "d5"}

NextBlock ==
    \/ \E d \in BlockDocs, activate \in BOOLEAN :
          OpenEditor(d, IF d \in Range(editors) THEN IndexOf(editors, d)
                        ELSE Len(editors), activate)
    \/ \E d \in BlockDocs, nextActive \in BlockDocs \cup {NoEditor} :
          CloseEditor(d, nextActive)
    \/ \E index \in 0..MaxEditors, nextActive \in BlockDocs \cup {NoEditor} :
          TabCloseButton(index, nextActive)
    \/ \E index \in 0..MaxEditors, nextActive \in BlockDocs \cup {NoEditor} :
          TabMouseUp(index, nextActive)
    \/ Layout(RedrawWidth)
    \/ AnimationFrame

SpecBlock == Init /\ [][NextBlock]_vars

(***************************************************************************)
(* The strip and the keyboard.  A key released on a tab runs the tab       *)
(* (Enter, Space) or navigates to another tab (arrows, Home, End).  The    *)
(* group answers getEditor with nothing for an index that has no editor,   *)
(* and the browser may scroll the strip to the tab that gets the focus.    *)
(***************************************************************************)
KeyDocs == {"d1", "d2", "d5"}

RunKeys == {"Enter", "Space"}
NavigationKeys == {"LeftArrow", "RightArrow", "UpArrow", "DownArrow", "Home", "End"}
Keys == RunKeys \cup NavigationKeys \cup {"Tab"}

\* group.getEditor(index)
getEditor(eds, index) ==
    IF index >= 0 /\ index < Len(eds) THEN eds[index + 1] ELSE NoEditor

\* the index a navigation key targets from the tab hooked with this index
targetIndex_WrapsAround(key, index, count) ==
    CASE key \in {"LeftArrow", "UpArrow"} -> (index - 1 + count) % count
      [] key \in {"RightArrow", "DownArrow"} -> (index + 1) % count
      [] key = "Home" -> 0
      [] OTHER -> count - 1

targetIndex(key, index, count) ==
    CASE key \in {"LeftArrow", "UpArrow"} -> index - 1
      [] key \in {"RightArrow", "DownArrow"} -> index + 1
      [] key = "Home" -> 0
      [] OTHER -> count - 1

\* tabsContainer.scrollLeft after the browser gave the focus to the tab at
\* the index: where it was, or where the tab is in view
scrollLeftsAfterFocus(eds, index, visible, scrollLeft) ==
    LET posX == offsetLeft(eds, index)
        width == TabWidth(eds[index + 1])
    IN  {scrollLeft,
         IF posX < scrollLeft \/ width > visible THEN posX
         ELSE IF posX + width > scrollLeft + visible THEN posX + width - visible
         ELSE scrollLeft}

\* key up on the tab created with this index
TabKeyUp(index, key) ==
    /\ index < Len(tabsContainer)
    /\ index \in hookedTabs
    /\ LET target == IF key \in RunKeys THEN getEditor(editors, index)
                     ELSE IF key \in NavigationKeys
                     THEN getEditor(editors, targetIndex(key, index, Len(editors)))
                     ELSE NoEditor
       IN  /\ IF target # NoEditor
              THEN /\ HostOpenEditor(target, IndexOf(editors, target), TRUE)
                   /\ openEditor(tabDrag)
              ELSE UNCHANGED <<hostVars, tabVars, layoutVars>>
           /\ history' = [step |-> "keyUp", key |-> key, index |-> index,
                          requested |-> target,
                          again |-> IF history.step = "keyUp" THEN ~history.again
                                    ELSE FALSE]
           /\ \E scrollLeft \in
                    IF key \in NavigationKeys /\ target # NoEditor
                    THEN scrollLeftsAfterFocus(editors, IndexOf(editors, target),
                                               viewport, scrollbar.scrollLeft)
                    ELSE {scrollbar.scrollLeft} :
                 scrollbar' = setScrollPosition(scrollbar, scrollLeft)
    /\ UNCHANGED <<blockRevealActiveTab, viewport, lastFrame, dragVars, controlVars>>

NextKeys ==
    \/ \E d \in KeyDocs, index \in 0..MaxEditors, activate \in BOOLEAN :
          index <= Len(editors) /\ OpenEditor(d, index, activate)
    \/ \E d \in KeyDocs, nextActive \in KeyDocs \cup {NoEditor} :
          CloseEditor(d, nextActive)
    \/ \E index \in 0..MaxEditors, key \in Keys : TabKeyUp(index, key)

SpecKeys == Init /\ [][NextKeys]_vars

(***************************************************************************)
(* Properties                                                              *)
(***************************************************************************)
\* Duplicate shortening is enabled: the label format is none of the three
\* named ones.
ShorteningEnabled == labelFormat \notin {"short", "medium", "long"}

Medium(i) == getDescription(renamed, editors[i], "MEDIUM")
Long(i) == getDescription(renamed, editors[i], "LONG")
Tabs == 1..Len(tabLabels)
SameName(i, j) == i # j /\ tabLabels[i].name = tabLabels[j].name

\* C1: after every notification the number of tab elements equals the host
\* group's document count, and the label-widget list and the disposable list
\* have that same length.
C1_CountsMatchHost ==
    /\ Len(tabsContainer) = Len(editors)
    /\ Len(tabLabelWidgets) = Len(editors)
    /\ Len(tabDisposeables) = Len(editors)

\* A close that followed an open trimmed the strip and left two tabs.
C1_Witness == history.step = "closed" /\ Len(tabsContainer) = 2

\* C2: the label array has one entry per host document and the label at
\* index i was computed from the document at index i of the host's ordering,
\* also after moveEditor, which does not recompute the labels.
C2_LabelsAligned ==
    /\ Len(tabLabels) = Len(editors)
    /\ \A i \in 1..Len(editors) :
          /\ tabLabels[i].editor = editors[i]
          /\ tabLabels[i].name = getName(renamed, editors[i])
          /\ tabLabels[i].title = getTitle(renamed, editors[i])

\* A move across another tab has just been notified.
C2_Witness ==
    /\ history.step = "moved"
    /\ Len(editors) = 3
    /\ editors[1] = "d2" /\ editors[3] = "d5"


\* The documents with the name of tab i whose description is a string.
StringGroup(i) ==
    {j \in Tabs : tabLabels[j].name = tabLabels[i].name /\ IsString(Medium(j))}

\* C3 as stated: with duplicate shortening enabled no two documents with the
\* same name show identical descriptions.
C3_NoIdenticalDescriptions ==
    ShorteningEnabled =>
        \A i, j \in Tabs :
            SameName(i, j) => tabLabels[i].description # tabLabels[j].description

\* C3 amended: with duplicate shortening enabled no two documents with the
\* same name, string descriptions at the medium and long verbosities and
\* different long descriptions show identical descriptions.
C3_DistinctLongDistinctShown ==
    ShorteningEnabled =>
        \A i, j \in Tabs :
            (/\ SameName(i, j)
             /\ IsString(Medium(i)) /\ IsString(Medium(j))
             /\ IsString(Long(i)) /\ IsString(Long(j))
             /\ Long(i) # Long(j))
            => tabLabels[i].description # tabLabels[j].description

\* Three documents with one name are shown: two share the medium description
\* and differ in the long one, the third has the long description of the first.
C3_Witness ==
    /\ ShorteningEnabled
    /\ Len(tabLabels) = 3
    /\ \E i, j, k \in Tabs :
          /\ SameName(i, j) /\ SameName(i, k) /\ j # k
          /\ Medium(i) = Medium(j) /\ Long(i) # Long(j)
          /\ Medium(k) # Medium(i) /\ Long(k) = Long(i)

\* C4: with duplicate shortening enabled every document whose name no other
\* document of the group has ends with an empty description.
C4_UniqueNameEmptyDescription ==
    ShorteningEnabled =>
        \A i \in Tabs :
            (\A j \in Tabs : ~SameName(i, j)) => tabLabels[i].description = EmptyString

\* A document with a name of its own and a non-empty medium description is
\* shown beside others.
C4_Witness ==
    /\ ShorteningEnabled
    /\ Len(tabLabels) >= 2
    /\ \E i \in Tabs :
          /\ \A j \in Tabs : ~SameName(i, j)
          /\ IsString(Medium(i)) /\ Medium(i) # EmptyString

\* C5: in a group of documents sharing a name whose medium descriptions are
\* pairwise distinct, each document is shown with the shortened form of its
\* own medium description among the group's medium descriptions, and these
\* are mutually unique (the long descriptions play no part).
C5_DistinctMediumShortened ==
    ShorteningEnabled =>
        \A i \in Tabs :
            LET G == StringGroup(i)
            IN  (/\ i \in G
                 /\ Cardinality(G) >= 2
                 /\ \A j, k \in G : j # k => Medium(j) # Medium(k))
                => /\ tabLabels[i].description
                        = ShortenOne(Medium(i), {Medium(j) : j \in G \ {i}})
                   /\ \A j \in G \ {i} :
                        tabLabels[j].description # tabLabels[i].description

\* Two documents with one name, distinct medium descriptions and the same
\* long description are shown.
C5_Witness ==
    /\ ShorteningEnabled
    /\ \E i, j \in Tabs :
          /\ SameName(i, j)
          /\ StringGroup(i) = {i, j}
          /\ Medium(i) # Medium(j)
          /\ Long(i) = Long(j)

\* C6 as stated: applying shortenTabLabels to the labels it produced leaves
\* every description unchanged.
C6_Idempotent ==
    ShorteningEnabled => shortenTabLabels(renamed, tabLabels) = tabLabels

\* C6 amended: when every document's medium and long descriptions are
\* strings, applying shortenTabLabels to the labels it produced leaves every
\* description unchanged.
C6_IdempotentOnStrings ==
    (ShorteningEnabled /\ \A i \in Tabs : IsString(Medium(i)) /\ IsString(Long(i)))
        => shortenTabLabels(renamed, tabLabels) = tabLabels

\* Labels with shortened (ellipsis-marked) descriptions were produced from
\* documents that all have string descriptions.
C6_Witness ==
    /\ ShorteningEnabled
    /\ Len(tabLabels) = 3
    /\ \A i \in Tabs : IsString(Medium(i))
    /\ \E i \in Tabs : /\ tabLabels[i].description # EmptyString
                       /\ tabLabels[i].description[1] = Ellipsis

\* C7 as stated: if the documents sharing a name have identical long
\* descriptions, all their descriptions become empty.
C7_IdenticalLongEmpty ==
    ShorteningEnabled =>
        \A i \in Tabs :
            LET G == StringGroup(i)
            IN  (/\ Cardinality(G) >= 2
                 /\ \A j, k \in G : Long(j) = Long(k))
                => \A j \in G : tabLabels[j].description = EmptyString

\* C7 amended: if the documents sharing a name have identical medium and
\* identical long descriptions, all their descriptions become empty.
C7_IdenticalMediumAndLongEmpty ==
    ShorteningEnabled =>
        \A i \in Tabs :
            LET G == StringGroup(i)
            IN  (/\ Cardinality(G) >= 2
                 /\ \A j, k \in G : Medium(j) = Medium(k) /\ Long(j) = Long(k))
                => \A j \in G : tabLabels[j].description = EmptyString

\* Two documents with one name and the same medium and long descriptions are
\* shown.
C7_Witness ==
    /\ ShorteningEnabled
    /\ \E i, j \in Tabs :
          /\ SameName(i, j)
          /\ StringGroup(i) = {i, j}
          /\ Medium(i) = Medium(j) /\ Long(i) = Long(j)
          /\ Medium(i) # EmptyString

\* C8: with duplicate shortening enabled a document whose description is not
\* a string ends with an empty description, and it does not make another
\* document with its name a duplicate: that one ends with an empty
\* description unless a document with a string description shares its name.
C8_NonStringNotCounted ==
    ShorteningEnabled =>
        \A i \in Tabs :
            /\ ~IsString(Medium(i)) => tabLabels[i].description = EmptyString
            /\ StringGroup(i) = {i} => tabLabels[i].description = EmptyString

\* A document with a string description shares its name only with a document
\* whose description is not a string.
C8_Witness ==
    /\ ShorteningEnabled
    /\ \E i, j \in Tabs :
          /\ SameName(i, j)
          /\ ~IsString(Medium(j))
          /\ StringGroup(i) = {i}
          /\ Medium(i) # EmptyString

\* C9: the label formats 'short', 'medium' and 'long' show each description
\* exactly as the document returns it at the verbosity of that name; every
\* other format shows the medium descriptions after duplicate shortening.
C9_LabelFormatMapping ==
    /\ Len(tabLabels) = Len(editors)
    /\ labelFormat = "short" =>
          \A i \in Tabs :
              tabLabels[i].description = getDescription(renamed, editors[i], "SHORT")
    /\ labelFormat = "medium" =>
          \A i \in Tabs :
              tabLabels[i].description = getDescription(renamed, editors[i], "MEDIUM")
    /\ labelFormat = "long" =>
          \A i \in Tabs :
              tabLabels[i].description = getDescription(renamed, editors[i], "LONG")
    /\ labelFormat \notin {"short", "medium", "long"} =>
          tabLabels = shortenTabLabels(renamed, BuildLabels(renamed, editors, "MEDIUM"))

\* The format 'long' shows two documents with one name and the same long
\* description, unshortened.
C9_Witness ==
    /\ labelFormat = "long"
    /\ \E i, j \in Tabs :
          /\ SameName(i, j)
          /\ tabLabels[i].description = <<"r", "a", "b">>
          /\ tabLabels[j].description = <<"r", "a", "b">>

\* C10: the close of a document right after its open restores the number of
\* visual records and the label array of the state before the open.
C10_OpenCloseRestores ==
    history.step = "closed" =>
        /\ Len(tabsContainer) = history.count
        /\ Len(tabLabelWidgets) = history.count
        /\ Len(tabDisposeables) = history.count
        /\ tabLabels = history.labels

\* A document was opened among two documents of its name and closed again.
C10_Witness ==
    /\ history.step = "closed"
    /\ ShorteningEnabled
    /\ Len(tabLabels) = 2
    /\ history.editor # "d4"
    /\ getName(renamed, history.editor) = tabLabels[1].name
    /\ \E i \in Tabs : tabLabels[i].description # EmptyString

\* C11: for all valid indices i and j of the label array, the move handler
\* applied from i to j and then from j back to i restores the ordering of the
\* label array.
C11_MoveBackRestores ==
    \A i, j \in 0..(Len(tabLabels) - 1) :
        MoveLabel(MoveLabel(tabLabels, i, j), j, i) = tabLabels

\* A move has just been notified on three tabs whose labels all differ, so
\* that a move from one end to the other and back has an order to restore.
C11_Witness ==
    /\ history.step = "moved"
    /\ Len(tabLabels) = 3
    /\ \A i, j \in Tabs : i # j => tabLabels[i] # tabLabels[j]
    /\ MoveLabel(tabLabels, 0, 2) # tabLabels

(***************************************************************************)
(* Layout properties                                                       *)
(***************************************************************************)
\* The step is an animation frame that runs the scheduled layout.
FrameStep == scheduledRunners > 0 /\ scheduledRunners' = 0

\* The active tab's element, its offset and its width.
ActiveTab == getTab(editors, activeEditor, tabsContainer)
ActiveTabPosX == offsetLeft(editors, IndexOf(editors, activeEditor))
ActiveTabWidth == TabWidth(activeEditor)

\* C12: in a layout pass that is not suppressed, with the active tab at
\* offset X and of width W, the viewport width V and the scroll position S,
\* the new scroll position is S + (X+W) - (S+V) if X+W > S+V and W <= V,
\* otherwise X if S > X or W > V, otherwise S.
C12_RevealedScrollPosition ==
    [][FrameStep /\ ActiveTab # NoTab /\ ~blockRevealActiveTab =>
        LET X == ActiveTabPosX
            W == ActiveTabWidth
            V == viewport
            S == scrollbar.scrollLeft
        IN  scrollbar'.scrollLeft =
                IF X + W > S + V /\ W <= V THEN S + (X + W) - (S + V)
                ELSE IF S > X \/ W > V THEN X
                ELSE S]_vars

\* The pass of the example: the active tab at offset 500 and of width 80 in
\* a viewport of 400 overflowed to the right and the scroll position is 180.
C12_Witness ==
    /\ lastFrame.outcome = "right"
    /\ ActiveTab # NoTab
    /\ ActiveTabPosX = 500 /\ ActiveTabWidth = 80 /\ viewport = 400
    /\ scrollbar.width = 400
    /\ scrollbar.scrollLeft = 180
    /\ ~layoutScheduled

\* C13: at most one layout runner is queued at any time; layout() calls made
\* while a runner is queued leave that one runner queued; and a frame that
\* follows any number of layout() calls runs doLayout exactly once.
C13_OneLayoutPerFrame ==
    /\ scheduledRunners <= 1
    /\ layoutCalls >= 1 => layoutScheduled /\ scheduledRunners = 1
    /\ lastFrame.calls >= 1 => lastFrame.runs = 1

\* A frame ran one doLayout after two or more layout() calls.
C13_Witness ==
    /\ lastFrame.calls >= 2
    /\ lastFrame.runs = 1

\* C14: every scheduled layout eventually runs; the frame that runs it leaves
\* the scheduler idle, whatever doLayout did; and a layout() call on the idle
\* scheduler schedules a new runner.
C14_ScheduledLayoutRuns ==
    /\ layoutScheduled ~> ~layoutScheduled
    /\ [][FrameStep => ~layoutScheduled']_vars
    /\ [][~layoutScheduled /\ layoutCalls' > layoutCalls =>
            layoutScheduled' /\ scheduledRunners' = 1]_vars

\* A frame ran a layout that aborted for lack of an active tab, and a later
\* layout() call has scheduled a new one.
C14_Witness ==
    /\ lastFrame.outcome = "aborted"
    /\ layoutScheduled
    /\ scheduledRunners = 1

\* C15: a layout pass that runs with an active tab while the reveal is
\* blocked pushes the scroll dimensions to the scroll bar, clears the flag
\* and leaves the scroll position as it was.
C15_SuppressedPass ==
    [][FrameStep /\ ActiveTab # NoTab /\ blockRevealActiveTab =>
        /\ scrollbar'.width = viewport
        /\ scrollbar'.scrollWidth = scrollWidth(editors, viewport)
        /\ ~blockRevealActiveTab'
        /\ scrollbar'.scrollLeft = scrollbar.scrollLeft]_vars

\* A suppressed pass has pushed new scroll dimensions and left the active
\* tab out of view, where a pass that is not suppressed scrolls.
C15_Witness ==
    /\ lastFrame.outcome = "suppressed"
    /\ ~blockRevealActiveTab
    /\ scrollbar.width = viewport
    /\ scrollbar.scrollWidth = scrollWidth(editors, viewport)
    /\ ActiveTab # NoTab
    /\ doLayout(editors, activeEditor, tabsContainer, viewport, scrollbar,
                FALSE).outcome \in {"left", "right"}

(***************************************************************************)
(* Drag and drop properties                                                *)
(***************************************************************************)
\* The last drag event was a drop of an editor dragged from a tab.
TabDropped == lastDrag.event = "drop" /\ lastDrag.dragged # NoData

\* The last drag event was the drop of the group's own last tab on the
\* strip beside its tabs.
OwnLastTabDropped ==
    /\ TabDropped
    /\ lastDrag.last
    /\ lastDrag.index = lastDrag.count

\* The step is a drop on this strip.
DropStep == session # NoSession /\ lastDrag'.event = "drop" /\ session' = NoSession

\* C16: the drop of a dragged editor asks the editor's source group to move
\* it to this group at the target index, except when the copy modifier is
\* held and the source group is not this group: then it asks this group to
\* open the editor at the target index and asks nothing of the source group.
C16_DropPolicy ==
    TabDropped =>
        lastDrag.request =
            IF lastDrag.copy /\ lastDrag.dragged.group # ThisGroup
            THEN Request(ThisGroup, "openEditor", lastDrag.dragged.editor,
                         ThisGroup, lastDrag.index)
            ELSE Request(lastDrag.dragged.group, "moveEditor",
                         lastDrag.dragged.editor, ThisGroup, lastDrag.index)

\* An editor of the other group was dropped with the copy modifier held and
\* is now shown at the target index.
C16_Witness ==
    /\ TabDropped
    /\ lastDrag.copy
    /\ lastDrag.dragged.group = OtherGroup
    /\ lastDrag.request.call = "openEditor"
    /\ Len(editors) = 2
    /\ IndexOf(editors, lastDrag.dragged.editor) = lastDrag.index

\* C17 as claimed: the drop of the group's own last tab beside the tabs
\* issues no move and no open request and shows no drop feedback.
C17_NoRequestOnOwnLastSlot ==
    OwnLastTabDropped =>
        /\ lastDrag.request.call \notin {"moveEditor", "openEditor"}
        /\ ~containerDrag.dropFeedback

\* C17: while the group's own last tab is dragged the strip shows no drop
\* feedback; its drop beside the tabs asks this group to move it to the
\* index after the last one, which leaves the group's editors, the tab
\* elements and the labels as they were.
C17_OwnLastSlotNoChange ==
    /\ [](draggedEditorIsLastTab => ~containerDrag.dropFeedback)
    /\ [](OwnLastTabDropped =>
            /\ lastDrag.request = Request(ThisGroup, "moveEditor",
                                          lastDrag.dragged.editor, ThisGroup,
                                          lastDrag.count)
            /\ ~containerDrag.dropFeedback)
    /\ [][DropStep /\ draggedEditorIsLastTab /\ pointer = OverContainer =>
            /\ editors' = editors
            /\ activeEditor' = activeEditor
            /\ tabsContainer' = tabsContainer
            /\ tabLabels' = tabLabels]_vars

\* The second of two tabs was dragged over the strip beside the tabs and
\* dropped there.
C17_Witness ==
    /\ OwnLastTabDropped
    /\ lastDrag.count = 2
    /\ containerDrag = NoContainerDrag
    /\ transfer = NoData

\* C18: a tab whose counter is zero has neither the class dragged-over nor
\* drop feedback; a tab whose counter is above zero has the class, and has
\* drop feedback unless it is the dragged tab itself; a drag leave that
\* leaves the counter above zero changes neither, one that brings it to
\* zero clears both.
C18_DragCounter ==
    /\ [](\A k \in 1..Len(tabDrag) :
            IF tabDrag[k].counter = 0
            THEN ~tabDrag[k].draggedOver /\ ~tabDrag[k].dropFeedback
            ELSE /\ tabDrag[k].counter > 0
                 /\ tabDrag[k].draggedOver
                 /\ tabDrag[k].dropFeedback <=> ~draggedEditorIsTab(k - 1))
    /\ [][\A k \in 1..Len(tabDrag) :
            Len(tabDrag') = Len(tabDrag) /\ tabDrag'[k].counter = tabDrag[k].counter - 1 =>
                IF tabDrag'[k].counter = 0
                THEN ~tabDrag'[k].draggedOver /\ ~tabDrag'[k].dropFeedback
                ELSE /\ tabDrag'[k].draggedOver = tabDrag[k].draggedOver
                     /\ tabDrag'[k].dropFeedback = tabDrag[k].dropFeedback]_vars

\* After the second drag leave that followed three drag enters the tab's
\* counter is 1 and its drop feedback is on.
C18_Witness ==
    /\ lastDrag.event = "dragleave"
    /\ lastDrag.counter = 2
    /\ lastDrag.index < Len(tabDrag)
    /\ tabDrag[lastDrag.index + 1] =
          [counter |-> 1, draggedOver |-> TRUE, dropFeedback |-> TRUE]

\* C19: while a tab of this strip is dragged the transfer slot holds its
\* editor and this group; after a drop on a tab or on the strip and after
\* the drag's end the slot holds no dragged editor.
C19_TransferCleared ==
    /\ session.kind = "local" =>
            /\ session.index < Len(editors)
            /\ transfer = DraggedEditorIdentifier(editors[session.index + 1], ThisGroup)
    /\ lastDrag.event \in {"drop", "dragend"} => transfer = NoData

\* The drag of a tab has ended without a drop on this strip.
C19_Witness ==
    /\ lastDrag.event = "dragend"
    /\ Len(editors) = 2
    /\ transfer = NoData
    /\ session = NoSession

(***************************************************************************)
(* Close                                                                   *)
(***************************************************************************)
\* The step is the close of an editor.
CloseStep == Len(editors') < Len(editors)

\* The indices bound to the disposables after the first n.
IndicesAfter(disposables, n) ==
    {disposables[k].index : k \in (n + 1)..Len(disposables)}

\* C20: when the host still has an active editor, closeEditor keeps the
\* first tab elements, label widgets and disposables, as many as the host
\* has editors, disposes the disposables it removes from the tail, and
\* recomputes the labels; when the host has no active editor, it leaves no
\* tab element, no label widget, no disposable (all disposed), no label and
\* an empty editor actions toolbar.
C20_CloseRemovesFromTail ==
    [][CloseStep =>
        IF activeEditor' # NoEditor
        THEN /\ tabsContainer' = SubSeq(tabsContainer, 1, Len(editors'))
             /\ tabLabelWidgets' = SubSeq(tabLabelWidgets, 1, Len(editors'))
             /\ tabDisposeables' = SubSeq(tabDisposeables, 1, Len(editors'))
             /\ hookedTabs' = hookedTabs
                    \ IndicesAfter(tabDisposeables, Len(editors'))
             /\ hookedTabs' = {x.index : x \in Range(tabDisposeables')}
             /\ tabLabels' = computeTabLabels(renamed', editors', labelFormat')
        ELSE /\ tabsContainer' = << >>
             /\ tabLabelWidgets' = << >>
             /\ tabDisposeables' = << >>
             /\ hookedTabs' = {}
             /\ tabLabels' = << >>
             /\ editorActionsToolbar' = {}]_vars

\* The first of three editors was opened and closed again: the tab elements
\* of the two others are left, and their listeners are hooked.
C20_Witness ==
    /\ history.step = "closed"
    /\ history.count = 2
    /\ history.labels[1].editor = editors[1]
    /\ activeEditor # NoEditor
    /\ tabDisposeables = <<createTab(0), createTab(1)>>
    /\ hookedTabs = {0, 1}
    /\ editorActionsToolbar = {activeEditor}

(***************************************************************************)
(* Drop without a dragged editor                                           *)
(***************************************************************************)
\* The last drag event was a drop while the transfer slot held no editor.
ExternalDropped == lastDrag.event = "drop" /\ lastDrag.dragged = NoData

\* C23: a drop while the transfer slot holds no dragged editor hands the
\* event to the resources drop handler with this group and the target
\* index; it asks no group to move or open an editor, it leaves the group's
\* editors and the tabs as they were, and the transfer slot is as it was.
C23_ExternalDrop ==
    /\ [](ExternalDropped =>
            /\ lastDrag.request = Request(ThisGroup, "handleDrop", NoEditor,
                                          ThisGroup, lastDrag.index)
            /\ lastDrag.request.call \notin {"moveEditor", "openEditor"})
    /\ [][DropStep /\ transfer = NoData =>
            /\ transfer' = transfer
            /\ UNCHANGED <<editors, activeEditor, tabsContainer, tabLabels>>]_vars

\* Files dragged from outside the workbench were dropped on the second of
\* two tabs.
C23_Witness ==
    /\ ExternalDropped
    /\ lastDrag.index = 1
    /\ lastDrag.count = 2
    /\ transfer = NoData
    /\ session = NoSession

(***************************************************************************)
(* Indices of the tab elements                                             *)
(***************************************************************************)
\* C29: the index each tab element, its label widget and its disposable
\* (the listeners and the close action's runner) were created with is the
\* element's position in the strip, and the hooked listeners are those of
\* the elements in the strip.
C29_CapturedIndexIsPosition ==
    /\ \A k \in 1..Len(tabsContainer) : tabsContainer[k] = createTab(k - 1)
    /\ \A k \in 1..Len(tabLabelWidgets) : tabLabelWidgets[k] = createTab(k - 1)
    /\ \A k \in 1..Len(tabDisposeables) : tabDisposeables[k] = createTab(k - 1)
    /\ hookedTabs = 0..(Len(tabsContainer) - 1)

\* The first of three editors was opened and closed again, and the two tab
\* elements left are those created with the indices 0 and 1.
C29_Witness ==
    /\ history.step = "closed"
    /\ history.count = 2
    /\ history.labels[1].editor = editors[1]
    /\ tabsContainer = <<createTab(0), createTab(1)>>
    /\ hookedTabs = {0, 1}

(***************************************************************************)
(* Redraw properties                                                       *)
(***************************************************************************)
\* C28 as claimed: the leftmost tab has the border on its left edge and the
\* rightmost tab has it on its right edge.
C28_LeftmostHasLeftBorder ==
    Len(tabStyles) > 0 =>
        /\ tabStyles[1].borderLeft
        /\ tabStyles[Len(tabStyles)].borderRight

\* C28: the leftmost tab has no border on its left edge, every other tab
\* has one there, and the rightmost tab has the border on its right edge.
C28_Borders ==
    /\ \A k \in 1..Len(tabStyles) : tabStyles[k].borderLeft <=> k # 1
    /\ Len(tabStyles) > 0 => tabStyles[Len(tabStyles)].borderRight

\* Three tabs are drawn: the first without a left border, the second with
\* one, the third with a left and a right border.
C28_Witness ==
    /\ Len(tabStyles) = 3
    /\ Len(editors) = 3
    /\ ~tabStyles[1].borderLeft
    /\ tabStyles[2].borderLeft
    /\ tabStyles[3].borderLeft /\ tabStyles[3].borderRight
    /\ tabStyles[1].name = getName(renamed, editors[1])

(***************************************************************************)
(* Options properties                                                      *)
(***************************************************************************)
\* The step is a change of the options with its updateOptions call.
OptionsStep == labelFormat' # labelFormat \/ partOptions' # partOptions

\* The step changes the label format.
LabelFormatChanged == labelFormat' # labelFormat

\* The step changes one of the five options the tabs are drawn from.
DrawnOptionChanged ==
    \/ labelFormat' # labelFormat
    \/ partOptions'.tabCloseButton # partOptions.tabCloseButton
    \/ partOptions'.tabSizing # partOptions.tabSizing
    \/ partOptions'.showIcons # partOptions.showIcons
    \/ partOptions'.iconTheme # partOptions.iconTheme

\* C21: updateOptions leaves the labels as they were unless the label
\* format changed, and then they are the labels computed with the new
\* format; if one of label format, close button, sizing, icon visibility
\* and icon theme changed, every tab is drawn with the new options and a
\* layout is requested; if none of them changed, the tabs, the labels, the
\* toolbar, the layout scheduler and the scroll state are as they were.
C21_UpdateOptions ==
    [][OptionsStep =>
        /\ tabLabels' = IF LabelFormatChanged
                        THEN computeTabLabels(renamed', editors', labelFormat')
                        ELSE tabLabels
        /\ IF DrawnOptionChanged
           THEN /\ Len(tabStyles') = Len(tabStyles)
                /\ \A k \in 1..Len(tabStyles') :
                      /\ tabStyles'[k].closeButton = partOptions'.tabCloseButton
                      /\ tabStyles'[k].sizing = partOptions'.tabSizing
                      /\ tabStyles'[k].hasIconTheme <=>
                            partOptions'.showIcons /\ partOptions'.iconTheme # ""
                      /\ tabStyles'[k].name = tabLabels'[k].name
                      /\ IsString(tabLabels'[k].description) =>
                            tabStyles'[k].description = tabLabels'[k].description
                /\ ActiveTab # NoTab /\ dimension # NoDimension =>
                      /\ layoutScheduled'
                      /\ layoutCalls' >= 1
                      /\ layoutCalls < MaxLayoutCalls => layoutCalls' = layoutCalls + 1
           ELSE UNCHANGED <<tabVars, layoutVars, scrollVars,
                            blockRevealActiveTab>>]_vars

\* The icon theme alone was unset: the two tabs are drawn without the class
\* of the icon theme and a layout is scheduled.
C21_Witness ==
    /\ Options(labelFormat, partOptions) =
          [Options("default", DefaultOptions) EXCEPT !.iconTheme = ""]
    /\ history = NoHistory
    /\ Len(tabStyles) = 2
    /\ \A k \in 1..2 : ~tabStyles[k].hasIconTheme
    /\ layoutScheduled
    /\ layoutCalls = 1

(***************************************************************************)
(* Pin and dirty notifications                                             *)
(***************************************************************************)
\* The step is a pinEditor or an updateEditorDirty call.
NotifyStep == history' # history /\ history'.step \in {"pinned", "dirty"}

\* The editor is not in the group, or its index is beyond the tab elements.
HasNoTab(editor) ==
    \/ editor \notin Range(editors)
    \/ IndexOf(editors, editor) >= Len(tabsContainer)

\* C24: pinEditor and updateEditorDirty for an editor that is not in the
\* group, or whose index is beyond the tab elements, leave the tab
\* elements, their styles, the labels, the toolbar, the layout scheduler
\* and the scroll state as they were.
C24_NoTabNoChange ==
    [][NotifyStep /\ HasNoTab(history'.editor) =>
        UNCHANGED <<tabVars, layoutVars, scrollVars, blockRevealActiveTab>>]_vars

\* The control was notified of the pin of an editor that is not in the
\* group, while the group's one editor has its tab.
C24_Witness ==
    /\ history.step = "pinned"
    /\ history.editor \notin Range(editors)
    /\ Len(editors) = 1
    /\ Len(tabStyles) = 1
    /\ tabStyles[1].italic
    /\ tabStyles[1].name = tabLabels[1].name

\* The control was notified that an editor of the group is dirty before the
\* editor had its tab element.
C24_WitnessBeyond ==
    /\ history.step = "dirty"
    /\ history.editor \in Range(editors)
    /\ history.editor \in dirtyEditors
    /\ IndexOf(editors, history.editor) >= Len(tabsContainer)

(***************************************************************************)
(* Move                                                                    *)
(***************************************************************************)
\* The step is the move of an editor within the group.
MoveStep == editors' # editors /\ Len(editors') = Len(editors)

\* C26: moveEditor leaves the tab elements, the label widgets and the
\* disposables as they were; after it every editor has, at its new index,
\* the label it had before with the same name, description and title; and
\* a layout is requested.
C26_MoveKeepsLabels ==
    [][MoveStep =>
        /\ tabsContainer' = tabsContainer
        /\ tabLabelWidgets' = tabLabelWidgets
        /\ tabDisposeables' = tabDisposeables
        /\ Len(tabLabels') = Len(tabLabels)
        /\ \A k \in 1..Len(editors') :
              tabLabels'[k] = tabLabels[IndexOf(editors, editors'[k]) + 1]
        /\ dimension # NoDimension =>
              /\ layoutScheduled'
              /\ layoutCalls' >= 1
              /\ layoutCalls < MaxLayoutCalls => layoutCalls' = layoutCalls + 1]_vars

\* An editor was moved while no layout was scheduled, and the move has
\* scheduled one.
C26_Witness ==
    /\ history.step = "moved"
    /\ Len(editors) = 2
    /\ \A k \in 1..2 : tabLabels[k].editor = editors[k]
    /\ tabLabels[1] # tabLabels[2]
    /\ dimension # NoDimension
    /\ layoutScheduled
    /\ layoutCalls = 1

(***************************************************************************)
(* Layout without an active editor, and the revealed tab                   *)
(***************************************************************************)
\* C27: while the group has no active editor, layout() schedules nothing and
\* keeps the stored dimension; and a doLayout that runs while the group has
\* no active editor changes neither the scroll position, nor the scroll
\* dimensions, nor the flag that suppresses the reveal once.
C27_NoActiveEditorNoLayout ==
    [][/\ activeEditor' = NoEditor /\ ~FrameStep => UNCHANGED layoutVars
       /\ FrameStep /\ activeEditor = NoEditor =>
            /\ scrollbar' = scrollbar
            /\ blockRevealActiveTab' = blockRevealActiveTab]_vars

\* A scheduled doLayout ran after the group became empty: the flag is still
\* set, the scroll position and the scroll dimensions are the old ones, and
\* the layout() call of a resize after that kept the stored dimension.
C27_Witness ==
    /\ editors = << >>
    /\ activeEditor = NoEditor
    /\ lastFrame.outcome = "aborted"
    /\ blockRevealActiveTab
    /\ scrollbar.scrollLeft > 0
    /\ scrollbar.width # viewport
    /\ dimension # NoDimension
    /\ dimension # Dimension(viewport)
    /\ ~layoutScheduled

\* C30: after a layout pass that is not suppressed, with the active tab at
\* offset X and of width W and the viewport width V: if W <= V the tab lies
\* inside the viewport (new scroll <= X and X + W <= new scroll + V), and
\* if W > V the new scroll position is X.
C30_ActiveTabRevealed ==
    [][FrameStep /\ ActiveTab # NoTab /\ ~blockRevealActiveTab =>
        LET X == ActiveTabPosX
            W == ActiveTabWidth
            V == viewport
        IN  /\ W <= V => /\ scrollbar'.scrollLeft <= X
                         /\ X + W <= scrollbar'.scrollLeft + V
            /\ W > V => scrollbar'.scrollLeft = X]_vars

\* A pass revealed an active tab wider than the viewport that does not start
\* the strip: the scroll position is the tab's leading edge.
C30_Witness ==
    /\ lastFrame.outcome = "left"
    /\ ActiveTab # NoTab
    /\ ActiveTabWidth > viewport
    /\ ActiveTabPosX > 0
    /\ scrollbar.scrollLeft = ActiveTabPosX
    /\ scrollbar.width = viewport

\* A pass left an active tab that fits inside the viewport where it was.
C30_WitnessFits ==
    /\ lastFrame.outcome = "unchanged"
    /\ ActiveTab # NoTab
    /\ ActiveTabWidth <= viewport
    /\ scrollbar.scrollLeft > 0
    /\ scrollbar.scrollLeft < ActiveTabPosX
    /\ ActiveTabPosX + ActiveTabWidth <= scrollbar.scrollLeft + viewport
    /\ scrollbar.width = viewport

C25_ClickOpensShownEditor ==
    history.step = "timeout" => history.opened = history.shown

\* A callback opened another editor than the one its tab showed.
C25_OpenedAnother ==
    /\ history.step = "timeout"
    /\ history.opened \in ClickDocs \ {history.shown}
    /\ activeEditor = history.opened

\* A callback opened nothing: the group had no editor at the index any more.
C25_OpenedNothing ==
    /\ history.step = "timeout"
    /\ history.opened = NoEditor

(***************************************************************************)
(* Active tab                                                              *)
(***************************************************************************)
\* The step is a setActive notification.
SetActiveStep == history'.step = "active" /\ history' # history

\* C31: after every redraw and after setActive a tab element is marked
\* active exactly if the editor at its index is the group's active editor,
\* so exactly one tab is marked while the group has an active editor; and
\* setActive changes at most the colours: the marks, the labels, the other
\* styles and the number of tabs stay.
C31_ActiveMark ==
    [][/\ Len(tabStyles') = Len(editors')
       /\ \A k \in 1..Len(tabStyles') :
             tabStyles'[k].active = (editors'[k] = activeEditor')
       /\ activeEditor' # NoEditor =>
             Cardinality({k \in 1..Len(tabStyles') : tabStyles'[k].active}) = 1
       /\ SetActiveStep =>
             /\ Len(tabStyles') = Len(tabStyles)
             /\ \A k \in 1..Len(tabStyles) :
                   tabStyles'[k] = [tabStyles[k] EXCEPT !.focused = activeGroup']
             /\ tabLabels' = tabLabels
             /\ tabsContainer' = tabsContainer
             /\ tabLabelWidgets' = tabLabelWidgets
             /\ tabDisposeables' = tabDisposeables]_vars

\* The group lost the focus: the second of three tabs is the one marked
\* active, and every tab has the colours of an unfocused group.
C31_Witness ==
    /\ history.step = "active"
    /\ ~activeGroup
    /\ Len(tabStyles) = 3
    /\ activeEditor = editors[2]
    /\ tabStyles[2].active /\ ~tabStyles[1].active /\ ~tabStyles[3].active
    /\ \A k \in 1..3 : ~tabStyles[k].focused

(***************************************************************************)
(* The flag that blocks the reveal once                                    *)
(***************************************************************************)
\* C32: the flag is set only in a step that closes a tab's editor and
\* cleared only by a layout pass that runs with an active tab; such a pass
\* finds the flag set by any number of close gestures, clears it and leaves
\* the scroll position; a pass that finds the flag clear, as the pass after
\* a suppressed one does unless a tab was closed by a gesture in between,
\* reveals the active tab and leaves the flag clear.
C32_BlocksRevealOnce ==
    [][/\ ~blockRevealActiveTab /\ blockRevealActiveTab' =>
             /\ ~FrameStep
             /\ Len(editors') = Len(editors) - 1
       /\ blockRevealActiveTab /\ ~blockRevealActiveTab' =>
             FrameStep /\ ActiveTab # NoTab
       /\ FrameStep /\ ActiveTab # NoTab /\ blockRevealActiveTab =>
             /\ ~blockRevealActiveTab'
             /\ lastFrame'.outcome = "suppressed"
             /\ scrollbar'.scrollLeft = scrollbar.scrollLeft
       /\ FrameStep /\ ActiveTab # NoTab /\ ~blockRevealActiveTab =>
             /\ ~blockRevealActiveTab'
             /\ lastFrame'.outcome \in {"left", "right", "unchanged"}
             /\ ActiveTabWidth <= viewport =>
                   /\ scrollbar'.scrollLeft <= ActiveTabPosX
                   /\ ActiveTabPosX + ActiveTabWidth
                         <= scrollbar'.scrollLeft + viewport]_vars

\* Two clicks on close buttons in a row set the flag, and the one pass that
\* ran after them was suppressed: it cleared the flag and left the active
\* tab out of view.
C32_Witness ==
    /\ history.step = "closeButton"
    /\ history.count = 2
    /\ lastFrame.outcome = "suppressed"
    /\ ~blockRevealActiveTab
    /\ ~layoutScheduled
    /\ ActiveTab # NoTab
    /\ doLayout(editors, activeEditor, tabsContainer, viewport, scrollbar,
                FALSE).outcome \in {"left", "right"}

\* The pass after a suppressed pass revealed the active tab.
C32_WitnessRevealed ==
    /\ history.step = "closeButton"
    /\ lastFrame.outcome \in {"left", "right"}
    /\ ~blockRevealActiveTab
    /\ ActiveTab # NoTab

(***************************************************************************)
(* Keyboard navigation                                                     *)
(***************************************************************************)
\* The step is a key up on a tab.
KeyStep == history'.step = "keyUp" /\ history' # history

\* C33: a navigation key released on the tab at index i asks the group to
\* open the editor at i-1 (Left, Up), i+1 (Right, Down), 0 (Home) or
\* count-1 (End) when that index has an editor, and then that editor is the
\* active one; when the index has no editor nothing is asked of the group
\* and the group and the tabs stay as they were.
C33_KeyboardNavigation ==
    [][KeyStep /\ history'.key \in NavigationKeys =>
        LET i == history'.index
            key == history'.key
            t == IF key \in {"LeftArrow", "UpArrow"} THEN i - 1
                 ELSE IF key \in {"RightArrow", "DownArrow"} THEN i + 1
                 ELSE IF key = "Home" THEN 0
                 ELSE Len(editors) - 1
        IN  IF t >= 0 /\ t < Len(editors)
            THEN /\ history'.requested = editors[t + 1]
                 /\ activeEditor' = editors[t + 1]
                 /\ editors' = editors
            ELSE /\ history'.requested = NoEditor
                 /\ t \in {-1, Len(editors)}
                 /\ UNCHANGED <<hostVars, tabVars, layoutVars>>]_vars

\* Right arrow on the last of three tabs: nothing was asked of the group,
\* and the first tab's editor is not the active one.
C33_Witness ==
    /\ history.step = "keyUp"
    /\ history.key = "RightArrow"
    /\ Len(editors) = 3
    /\ history.index = 2
    /\ history.requested = NoEditor
    /\ activeEditor = editors[3]

\* Left arrow on the second tab made the first tab's editor the active one.
C33_WitnessLeft ==
    /\ history.step = "keyUp"
    /\ history.key = "LeftArrow"
    /\ history.index = 1
    /\ Len(editors) = 3
    /\ history.requested = editors[1]
    /\ activeEditor = editors[1]

====
